---- MODULE Spec2Model ----
\* A model of the QuickBooks integration layer of the foundation package:
\*   foundation/clients/quickbooks.py              (QuickBooksClient)
\*   foundation/clients/multi_tenant_quickbooks.py (MultiTenantQB)
\* Every handler is one action; the backend's answers are inputs drawn with \E.
EXTENDS Integers, Sequences, FiniteSets, TLC

VARIABLES
    clients,        \* MultiTenantQB.clients: the company prefixes that have a session
    access_token,   \* auth_client.access_token of every session (a token serial number)
    http_log,       \* the HTTP requests sent by the last operation, in order
    refreshes,      \* refresh-token grants attempted by the last operation
    call,           \* the last operation and its inputs (arguments and backend answers)
    outcome         \* what the last operation returned or raised

vars == <<clients, access_token, http_log, refreshes, call, outcome>>

-----------------------------------------------------------------------------
\* Bounds of the model.

\* Refreshes one session may perform in a behaviour (tokens are serial numbers).
MaxToken == 2
\* Top-level rows of a report payload.
MaxRows == 3
\* Companies named in one call of MultiTenantQB.get_ar_aging.
MaxRequested == 3
\* Items in the backend's catalog.
MaxItems == 3
\* Companies a pool is constructed for.
MaxPool == 2
\* Lines of one invoice request.
MaxLines == 3
\* Transactions of one kind in the backend.
MaxTxns == 2
\* Callers that use one session at the same time.
MaxCallers == 2

-----------------------------------------------------------------------------
\* Python str operations, on TLA+ strings.

Min(a, b) == IF a < b THEN a ELSE b

\* The element of a singleton.  The({F(x) : x \in {e}}) is F(e) with e evaluated
\* once, as an assignment to a local variable is.
The(S) == CHOOSE x \in S : TRUE

\* s[i], a one-character string
CharAt(s, i) == SubSeq(s, i, i)

\* s[i:] with a 1-based index
Tail_(s, i) == SubSeq(s, i, Len(s))

\* s.startswith(p) at position i
MatchAt(s, p, i) == i + Len(p) - 1 <= Len(s) /\ SubSeq(s, i, i + Len(p) - 1) = p

\* p in s
Contains(s, p) == \E i \in 1..(Len(s) + 1) : MatchAt(s, p, i)

\* s.find(p) with a 1-based result, 0 when absent
Find(s, p) ==
    IF Contains(s, p)
    THEN CHOOSE i \in 1..(Len(s) + 1) :
            MatchAt(s, p, i) /\ \A j \in 1..(i - 1) : ~MatchAt(s, p, j)
    ELSE 0

\* The characters the model's strings use, in code-point order.
Alphabet == " $',-.0123456789:=ABCDEFGHIJKLMNOPQRSTUVWXYZ_abcdefghijklmnopqrstuvwxyz"
Uppers == "ABCDEFGHIJKLMNOPQRSTUVWXYZ"
Lowers == "abcdefghijklmnopqrstuvwxyz"

\* ord(c), up to an order-preserving renumbering
Ord(c) == Find(Alphabet, c)

RECURSIVE StrLess(_, _)
\* a < b on str: lexicographic by code point, a proper prefix is smaller
StrLess(a, b) ==
    IF Len(b) = 0 THEN FALSE
    ELSE IF Len(a) = 0 THEN TRUE
    ELSE IF CharAt(a, 1) = CharAt(b, 1) THEN StrLess(Tail_(a, 2), Tail_(b, 2))
    ELSE Ord(CharAt(a, 1)) < Ord(CharAt(b, 1))

RECURSIVE Lower(_)
\* s.lower()
Lower(s) ==
    IF Len(s) = 0 THEN ""
    ELSE LET c == CharAt(s, 1)
             u == Find(Uppers, c)
         IN (IF u > 0 THEN CharAt(Lowers, u) ELSE c) \o Lower(Tail_(s, 2))

RECURSIVE LStrip(_)
LStrip(s) == IF Len(s) > 0 /\ CharAt(s, 1) = " " THEN LStrip(Tail_(s, 2)) ELSE s

RECURSIVE RStrip(_)
RStrip(s) ==
    IF Len(s) > 0 /\ CharAt(s, Len(s)) = " " THEN RStrip(SubSeq(s, 1, Len(s) - 1)) ELSE s

\* s.strip()
Strip(s) == RStrip(LStrip(s))

RECURSIVE Remove(_, _)
\* s.replace(c, '') for a one-character c
Remove(s, c) ==
    IF Len(s) = 0 THEN ""
    ELSE (IF CharAt(s, 1) = c THEN "" ELSE CharAt(s, 1)) \o Remove(Tail_(s, 2), c)

RECURSIVE Join(_, _)
\* sep.join(parts)
Join(parts, sep) ==
    IF Len(parts) = 0 THEN ""
    ELSE IF Len(parts) = 1 THEN parts[1]
    ELSE parts[1] \o sep \o Join(Tail(parts), sep)

-----------------------------------------------------------------------------
\* Sessions (QuickBooksClient.__init__).

BASE_URL == "https://quickbooks.api.intuit.com/v3/company"
PLAYGROUND_URL == "https://developer.intuit.com/app/developer/playground"

DJANGO == "DJANGO"
STANDARD_MGMT == "STANDARD_MANAGEMENT_COMPANY"
STANDARD_PROPS == "STANDARD_PROPERTIES"
CMR == "CMR"

\* Companies.all()
Companies == <<DJANGO, STANDARD_MGMT, STANDARD_PROPS, CMR>>

Range(s) == {s[i] : i \in DOMAIN s}

\* The companies whose credentials are configured: constructing the pool gives
\* these a session and leaves the others without one.
Tenants == <<DJANGO, STANDARD_MGMT>>

\* The fields __init__ reads from the environment.
Session(company_prefix) ==
    [company_prefix |-> company_prefix,
     client_id      |-> "client-id",
     client_secret  |-> "client-secret",
     refresh_token  |-> "rt-" \o company_prefix,
     realm_id       |-> "realm-" \o company_prefix]

-----------------------------------------------------------------------------
\* Exceptions and results of a call.

QuickBooksAuthError(msg) == [type |-> "QuickBooksAuthError", msg |-> msg]
PlainException(msg) == [type |-> "Exception", msg |-> msg]

\* What a call did: returned `value` or raised `exc`, the token it left in the
\* session, the requests it sent and the refresh grants it attempted.
Returned(value, token, sent, grants) ==
    [raised |-> FALSE, value |-> <<value>>, exc |-> <<>>,
     token |-> token, sent |-> sent, grants |-> grants]
Raised(exc, token, sent, grants) ==
    [raised |-> TRUE, value |-> <<>>, exc |-> <<exc>>,
     token |-> token, sent |-> sent, grants |-> grants]

-----------------------------------------------------------------------------
\* The backend's answer to one HTTP request.  status 0 stands for a transport
\* failure: requests raises a RequestException that carries no response.

JsonResponse(status, json) ==
    [status |-> status, is_json |-> TRUE, json |-> <<json>>, text |-> "json"]
TextResponse(status, text) ==
    [status |-> status, is_json |-> FALSE, json |-> <<>>, text |-> text]
NoResponse == TextResponse(0, "")

FaultBody(message, detail) ==
    [Fault |-> [Error |-> <<[Message |-> message, Detail |-> detail]>>]]

Unauthorized == JsonResponse(401, FaultBody("AuthenticationFailed", "token expired"))

\* str() of the HTTPError that response.raise_for_status() raises
HTTPErrorText(status) ==
    CASE status = 401 -> "401 Client Error"
      [] status = 403 -> "403 Client Error"
      [] status = 404 -> "404 Client Error"
      [] status = 500 -> "500 Server Error"
      [] OTHER        -> "HTTP Error"

-----------------------------------------------------------------------------
\* QuickBooksClient._handle_auth_error: always raises; the result is the exception.
\* The message raised when the refresh token itself is dead.
ExpiredMessage(s) ==
    "\nQuickBooks refresh token has expired for " \o s.company_prefix \o "!\n"
    \o "Please follow these steps:\n"
    \o "1. Go to " \o PLAYGROUND_URL \o "\n"
    \o "2. Enter these credentials:\n"
    \o "   Client ID: " \o s.client_id \o "\n"
    \o "   Client Secret: " \o s.client_secret \o "\n"
    \o "3. Click 'Get authorization code' and sign in with " \o s.company_prefix
    \o " credentials\n"
    \o "4. Click 'Get tokens'\n"
    \o "5. Update the " \o s.company_prefix \o "_QB_REFRESH_TOKEN in your .env file\n"
    \o "6. Update Heroku: heroku config:set " \o s.company_prefix
    \o "_QB_REFRESH_TOKEN='new_token' --app propertyops\n"

\* _handle_auth_error looking for 'invalid_grant' in the error text as it is
_handle_auth_error_case_sensitive(s, error_msg) ==
    IF Contains(error_msg, "invalid_grant")
    THEN QuickBooksAuthError(ExpiredMessage(s))
    ELSE QuickBooksAuthError(
            "Failed to authenticate with QuickBooks for " \o s.company_prefix
            \o ": " \o error_msg)

_handle_auth_error(s, error_msg) ==
    IF Contains(Lower(error_msg), "invalid_grant")
    THEN QuickBooksAuthError(ExpiredMessage(s))
    ELSE QuickBooksAuthError(
            "Failed to authenticate with QuickBooks for " \o s.company_prefix
            \o ": " \o error_msg)

\* The answer of the token endpoint to a refresh-token grant: a new access token,
\* or a failure with the text of the exception auth_client.refresh raises.
GrantOk == [ok |-> TRUE, error |-> ""]
GrantFailed(error) == [ok |-> FALSE, error |-> error]

\* refresh_access_token swallowing the failure of the grant
refresh_access_token_swallowing(s, token, grant) ==
    IF grant.ok
    THEN [raised |-> FALSE, token |-> token + 1, exc |-> <<>>]
    ELSE [raised |-> FALSE, token |-> token, exc |-> <<>>]

\* QuickBooksClient.refresh_access_token: the new token, or the exception raised.
refresh_access_token(s, token, grant) ==
    IF grant.ok
    THEN [raised |-> FALSE, token |-> token + 1, exc |-> <<>>]
    ELSE [raised |-> TRUE, token |-> token, exc |-> <<_handle_auth_error(s, grant.error)>>]

-----------------------------------------------------------------------------
\* One HTTP request as the backend sees it.
Request(method, url, token, params, json) ==
    [method |-> method, url |-> url, bearer |-> token, params |-> params, json |-> json]

\* What the backend answers during one call: the first response, the token
\* endpoint's answer should a refresh be attempted, and the response to a retry.
Script(first, grant, second) == [first |-> first, grant |-> grant, second |-> second]

\* The except-RequestException handler of _make_request: the exception it raises
\* for a failed response (status 0: the exception carries no response).
RequestFailure(resp, text) ==
    IF resp.status # 0
    THEN IF ~resp.is_json
         THEN PlainException("QuickBooks API error: " \o resp.text)
         ELSE IF "Fault" \in DOMAIN resp.json[1]
         THEN LET err == resp.json[1].Fault.Error[1]
              IN PlainException("QuickBooks API error: " \o err.Message \o ". " \o err.Detail)
         ELSE PlainException("QuickBooks API request failed: " \o text)
    ELSE PlainException("QuickBooks API request failed: " \o text)

\* The tail of _make_request without raise_for_status(): the body of an error
\* response is returned.
Complete_make_request_ignoring_status(resp, token, sent, grants) ==
    IF resp.status = 0
    THEN Raised(RequestFailure(NoResponse, "connection error"), token, sent, grants)
    ELSE IF ~resp.is_json
    THEN Raised(RequestFailure(NoResponse, "Expecting value"), token, sent, grants)
    ELSE Returned(resp.json[1], token, sent, grants)

\* The tail of _make_request: response.raise_for_status(); return response.json()
Complete_make_request(resp, token, sent, grants) ==
    IF resp.status = 0
    THEN Raised(RequestFailure(NoResponse, "connection error"), token, sent, grants)
    ELSE IF resp.status >= 400
    THEN Raised(RequestFailure(resp, HTTPErrorText(resp.status)), token, sent, grants)
    ELSE IF ~resp.is_json
    THEN Raised(RequestFailure(NoResponse, "Expecting value"), token, sent, grants)
    ELSE Returned(resp.json[1], token, sent, grants)

\* _make_request without the retry: the refreshed token is stored, and the first
\* response is what the call completes with.
_make_request_without_retry(s, token, method, endpoint, params, json, script) ==
    LET url == BASE_URL \o "/" \o s.realm_id \o "/" \o endpoint
        req1 == Request(method, url, token, params \o "minorversion=75", json)
    IN  IF script.first.status = 401
        THEN LET rf == refresh_access_token(s, token, script.grant)
             IN  IF rf.raised
                 THEN Raised(rf.exc[1], token, <<req1>>, 1)
                 ELSE Complete_make_request(script.first, rf.token, <<req1>>, 1)
        ELSE Complete_make_request(script.first, token, <<req1>>, 0)

\* _make_request without the check of the retried status: a second 401 reaches
\* raise_for_status and the handler of request failures.
_make_request_unchecked_retry(s, token, method, endpoint, params, json, script) ==
    LET url == BASE_URL \o "/" \o s.realm_id \o "/" \o endpoint
        req1 == Request(method, url, token, params \o "minorversion=75", json)
    IN  IF script.first.status = 401
        THEN LET rf == refresh_access_token(s, token, script.grant)
                 req2 == Request(method, url, rf.token, params \o "minorversion=75", json)
             IN  IF rf.raised
                 THEN Raised(rf.exc[1], token, <<req1>>, 1)
                 ELSE Complete_make_request(script.second, rf.token, <<req1, req2>>, 1)
        ELSE Complete_make_request(script.first, token, <<req1>>, 0)

\* _make_request retrying after any error status, not only after 401
_make_request_retrying_any_error(s, token, method, endpoint, params, json, script) ==
    LET url == BASE_URL \o "/" \o s.realm_id \o "/" \o endpoint
        all_params == params \o "minorversion=75"
        req1 == Request(method, url, token, all_params, json)
    IN  IF script.first.status >= 400
        THEN LET rf == refresh_access_token(s, token, script.grant)
                 req2 == Request(method, url, rf.token, all_params, json)
             IN  IF rf.raised
                 THEN Raised(rf.exc[1], token, <<req1>>, 1)
                 ELSE IF script.second.status = 401
                 THEN Raised(QuickBooksAuthError("Authentication failed even after token refresh"),
                             rf.token, <<req1, req2>>, 1)
                 ELSE Complete_make_request(script.second, rf.token, <<req1, req2>>, 1)
        ELSE Complete_make_request(script.first, token, <<req1>>, 0)

\* QuickBooksClient._make_request
_make_request(s, token, method, endpoint, params, json, script) ==
    LET url == BASE_URL \o "/" \o s.realm_id \o "/" \o endpoint
        all_params == params \o "minorversion=75"
        req1 == Request(method, url, token, all_params, json)
    IN  IF script.first.status = 401
        THEN LET rf == refresh_access_token(s, token, script.grant)
                 req2 == Request(method, url, rf.token, all_params, json)
             IN  IF rf.raised
                 THEN Raised(rf.exc[1], token, <<req1>>, 1)
                 ELSE IF script.second.status = 401
                 THEN Raised(QuickBooksAuthError("Authentication failed even after token refresh"),
                             rf.token, <<req1, req2>>, 1)
                 ELSE Complete_make_request(script.second, rf.token, <<req1, req2>>, 1)
        ELSE Complete_make_request(script.first, token, <<req1>>, 0)

RECURSIVE Quote(_)
\* urllib.parse.quote: letters, digits and _.-~/ are kept, the rest is escaped
Quote(s) ==
    IF Len(s) = 0 THEN ""
    ELSE IF Len(s) = 1
    THEN CASE s = " " -> "%20"
           [] s = "'" -> "%27"
           [] s = "=" -> "%3D"
           [] s = "," -> "%2C"
           [] s = "(" -> "%28"
           [] s = ")" -> "%29"
           [] s = "%" -> "%25"
           [] s = "*" -> "%2A"
           [] s = ":" -> "%3A"
           [] s = "$" -> "%24"
           [] s = "<" -> "%3C"
           [] s = ">" -> "%3E"
           [] s = "\n" -> "%0A"
           [] OTHER   -> s
    ELSE Quote(SubSeq(s, 1, Len(s) \div 2)) \o Quote(SubSeq(s, Len(s) \div 2 + 1, Len(s)))

\* The tail of _query_direct: raise_for_status(), response.json(); the handler
\* re-raises whatever was raised.
Complete_query_direct(resp, token, sent, grants) ==
    IF resp.status = 0
    THEN Raised([type |-> "ConnectionError", msg |-> "connection error"], token, sent, grants)
    ELSE IF resp.status >= 400
    THEN Raised([type |-> "HTTPError", msg |-> HTTPErrorText(resp.status)], token, sent, grants)
    ELSE IF ~resp.is_json
    THEN Raised([type |-> "JSONDecodeError", msg |-> "Expecting value"], token, sent, grants)
    ELSE Returned(resp.json[1], token, sent, grants)

\* _query_direct refreshing the token before every request
_query_direct_always_refreshing(s, token, query_string, script) ==
    LET url == BASE_URL \o "/" \o s.realm_id \o "/query?query=" \o Quote(query_string)
               \o "&minorversion=75"
        rf == refresh_access_token(s, token, GrantOk)
        req1 == Request("GET", url, rf.token, "", <<>>)
    IN  IF script.first.status = 401
        THEN Raised(QuickBooksAuthError("Authentication failed even after token refresh"),
                    rf.token, <<req1>>, 1)
        ELSE Complete_query_direct(script.first, rf.token, <<req1>>, 1)

\* QuickBooksClient._query_direct
_query_direct(s, token, query_string, script) ==
    LET url == BASE_URL \o "/" \o s.realm_id \o "/query?query=" \o Quote(query_string)
               \o "&minorversion=75"
        req1 == Request("GET", url, token, "", <<>>)
    IN  IF script.first.status = 401
        THEN LET rf == refresh_access_token(s, token, script.grant)
                 req2 == Request("GET", url, rf.token, "", <<>>)
             IN  IF rf.raised
                 THEN Raised(rf.exc[1], token, <<req1>>, 1)
                 ELSE IF script.second.status = 401
                 THEN Raised(QuickBooksAuthError("Authentication failed even after token refresh"),
                             rf.token, <<req1, req2>>, 1)
                 ELSE Complete_query_direct(script.second, rf.token, <<req1, req2>>, 1)
        ELSE Complete_query_direct(script.first, token, <<req1>>, 0)

-----------------------------------------------------------------------------
\* The request executor under arbitrary backend answers.

\* Answers of the backend to a request.
Responses ==
    {JsonResponse(200, [doc |-> "A"]), JsonResponse(200, [doc |-> "B"]),
     TextResponse(200, "not json"),
     Unauthorized,
     JsonResponse(500, FaultBody("Internal error", "try later")),
     TextResponse(500, "Bad Gateway"),
     JsonResponse(403, [doc |-> "forbidden"]),
     NoResponse}

\* Answers of the token endpoint.
Grants ==
    {GrantOk, GrantFailed("400 Invalid_Grant"), GrantFailed("invalid_grant: token expired"),
     GrantFailed("503 unavailable")}

\* The scripts of one call: the token endpoint answers only after a 401, and a
\* second response exists only after a successful refresh.
Scripts ==
    {Script(f, GrantOk, NoResponse) : f \in Responses \ {Unauthorized}}
    \cup {Script(Unauthorized, g, NoResponse) : g \in Grants \ {GrantOk}}
    \cup {Script(Unauthorized, GrantOk, r) : r \in Responses}

Endpoints == {"reports/AgedReceivables", "invoice"}
Queries == {"SELECT Id FROM Customer WHERE DisplayName = 'Acme'"}

\* A script asks for a new token only while the session has serial numbers left.
TokenAvailable(t, script) ==
    (script.first.status = 401 /\ script.grant.ok) => access_token[t] < MaxToken

Idle == [op |-> "none"]
NoOutcome == [raised |-> FALSE, value |-> <<>>, exc |-> <<>>]

InitSessions ==
    /\ clients = Range(Tenants)
    /\ access_token = [t \in Range(Tenants) |-> 0]
    /\ http_log = <<>>
    /\ refreshes = 0
    /\ call = Idle
    /\ outcome = NoOutcome

\* The effect of a call's result r on the session of tenant t.
Effect(t, r) ==
    /\ access_token' = [access_token EXCEPT ![t] = r.token]
    /\ http_log' = r.sent
    /\ refreshes' = r.grants
    /\ outcome' = [raised |-> r.raised, value |-> r.value, exc |-> r.exc]
    /\ UNCHANGED clients

MakeRequestCall ==
    \E t \in clients, endpoint \in Endpoints, script \in Scripts :
        /\ TokenAvailable(t, script)
        /\ call' = [op |-> "_make_request", tenant |-> t, endpoint |-> endpoint,
                    script |-> script, token |-> access_token[t]]
        /\ \E r \in {_make_request(Session(t), access_token[t], "GET", endpoint, "", <<>>, script)} :
                Effect(t, r)

QueryDirectCall ==
    \E t \in clients, query \in Queries, script \in Scripts :
        /\ TokenAvailable(t, script)
        /\ call' = [op |-> "_query_direct", tenant |-> t, query |-> query,
                    script |-> script, token |-> access_token[t]]
        /\ \E r \in {_query_direct(Session(t), access_token[t], query, script)} :
                Effect(t, r)

NextReq == MakeRequestCall \/ QueryDirectCall

SpecReq == InitSessions /\ [][NextReq]_vars

-----------------------------------------------------------------------------
\* MultiTenantQB.format_ar_report.
\* JSON objects are records, JSON arrays are sequences; a JSON scalar is <<s>>
\* for the string s and <<>> for null.

JStr(s) == <<s>>
JNull == <<>>

\* bool(v) of a string or None
Truthy(v) == v # JNull /\ v # JStr("")

\* a or b
Or(a, b) == IF Truthy(a) THEN a ELSE b

\* dict.get(key, default)
Get(d, key, default) == IF key \in DOMAIN d THEN d[key] ELSE default

Digits == "0123456789"

RECURSIVE AllDigits(_)
AllDigits(s) ==
    Len(s) = 0 \/ (Find(Digits, CharAt(s, 1)) > 0 /\ AllDigits(Tail_(s, 2)))

RECURSIVE ToNat(_)
\* the number a string of digits denotes, 0 for the empty string
ToNat(s) ==
    IF Len(s) = 0 THEN 0
    ELSE ToNat(SubSeq(s, 1, Len(s) - 1)) * 10 + (Find(Digits, CharAt(s, Len(s))) - 1)

\* float(s) for decimal literals: optional sign, digits, optional point, digits.
\* ok = FALSE is ValueError.  The amount is kept in cents; the texts the model
\* draws carry at most two decimals (with more, Python rounds the binary value).
ParseFloat(s) ==
    LET t == Strip(s)
        signed == Len(t) > 0 /\ CharAt(t, 1) \in {"-", "+"}
        u == IF signed THEN Tail_(t, 2) ELSE t
        dot == Find(u, ".")
        ip == IF dot = 0 THEN u ELSE SubSeq(u, 1, dot - 1)
        fp == IF dot = 0 THEN "" ELSE SubSeq(u, dot + 1, Min(Len(u), dot + 2))
        rest == IF dot = 0 THEN "" ELSE Tail_(u, dot + 1)
    IN  [ok    |-> AllDigits(ip) /\ AllDigits(rest) /\ Len(ip) + Len(rest) > 0,
         neg   |-> Len(t) > 0 /\ CharAt(t, 1) = "-",
         cents |-> IF AllDigits(ip) /\ AllDigits(fp)
                   THEN ToNat(ip) * 100 + (IF Len(fp) = 1 THEN ToNat(fp) * 10 ELSE ToNat(fp))
                   ELSE 0]

RECURSIVE NatStr(_)
\* str(n)
NatStr(n) ==
    IF n < 10 THEN CharAt(Digits, n + 1)
    ELSE NatStr(n \div 10) \o CharAt(Digits, (n % 10) + 1)

\* n zero-padded to w digits
Padded(n, w) ==
    LET t == NatStr(n)
    IN  SubSeq("000", 1, IF Len(t) < w THEN w - Len(t) ELSE 0) \o t

RECURSIVE Grouped(_)
\* format(n, ','): thousands separated by commas
Grouped(n) ==
    IF n < 1000 THEN NatStr(n)
    ELSE Grouped(n \div 1000) \o "," \o Padded(n % 1000, 3)

\* f"${amount:,.2f}"
Currency(amount) ==
    "$" \o (IF amount.neg THEN "-" ELSE "")
        \o Grouped(amount.cents \div 100) \o "." \o Padded(amount.cents % 100, 2)

\* One money cell: [raised, text].  A value that is not a string has no
\* replace method (AttributeError, which the ValueError handler lets through).
FormatCell(value) ==
    IF value = JNull
    THEN [raised |-> TRUE, text |-> ""]
    ELSE LET clean_value == Remove(Remove(value[1], "$"), ",")
             amount == ParseFloat(clean_value)
         IN  [raised |-> FALSE,
              text   |-> IF amount.ok THEN Currency(amount) ELSE value[1]]

\* FormatDataCell without the default for an empty value.
FormatDataCell_without_default(col) == FormatCell(Get(col, "value", JStr("")))

\* A cell of a data row: '' stands for a missing value and becomes '0.00'.
FormatDataCell(col) ==
    LET value == Get(col, "value", JStr(""))
    IN  FormatCell(IF value = JStr("") THEN JStr("0.00") ELSE value)

\* The first cell of a data row: the value as it is.
FirstCell(col) ==
    LET value == Get(col, "value", JStr(""))
    IN  IF value = JNull THEN "None" ELSE value[1]

\* A cell of the grand total's summary.
FormatTotalCell(col) == FormatCell(Get(col, "value", JStr("0.00")))

headers == <<"Customer", "Current", "1-30 Days", "31-60 Days", "61-90 Days", "91+ Days", "Total">>

\* The rows of the first loop: those with ColData that are no Section.
IsDataRow(row) ==
    /\ Len(Get(row, "ColData", <<>>)) > 0
    /\ Get(row, "type", JNull) # JStr("Section")

IsGrandTotal(row) ==
    /\ Get(row, "type", JNull) = JStr("Section")
    /\ Get(row, "group", JNull) = JStr("GrandTotal")

\* [raised, cells] of one data row
FormatDataRow(row) ==
    LET col_data == row.ColData
        cells == [i \in 1..Len(col_data) |->
                    IF i = 1 THEN [raised |-> FALSE, text |-> FirstCell(col_data[1])]
                    ELSE FormatDataCell(col_data[i])]
    IN  [raised |-> \E i \in 1..Len(col_data) : cells[i].raised,
         cells  |-> [i \in 1..Len(col_data) |-> cells[i].text]]

\* [raised, cells] of the TOTAL row of a grand-total section
FormatTotalRow(row) ==
    LET col_data == Get(Get(row, "Summary", [none |-> 0]), "ColData", <<>>)
        cells == [i \in 1..Len(col_data) |-> FormatTotalCell(col_data[i])]
    IN  [raised |-> \E i \in 2..Len(col_data) : cells[i].raised,
         cells  |-> <<"TOTAL">> \o [i \in 1..(Len(col_data) - 1) |-> cells[i + 1].text]]

\* MultiTenantQB.format_ar_report: [raised, rows].  `report` is a JSON object.
format_ar_report(report) ==
    IF DOMAIN report = {} \/ "Rows" \notin DOMAIN report
    THEN [raised |-> FALSE, rows |-> <<>>]
    ELSE LET rows == Get(report.Rows, "Row", <<>>)
             data == SelectSeq(rows, IsDataRow)
             body == [i \in 1..Len(data) |-> FormatDataRow(data[i])]
             totals == SelectSeq(rows, IsGrandTotal)
             total == IF Len(totals) = 0 THEN <<>> ELSE <<FormatTotalRow(totals[1])>>
         IN  IF (\E i \in 1..Len(body) : body[i].raised)
                \/ (\E i \in 1..Len(total) : total[i].raised)
             THEN [raised |-> TRUE, rows |-> <<>>]
             ELSE [raised |-> FALSE,
                   rows   |-> <<headers>> \o [i \in 1..Len(body) |-> body[i].cells]
                                         \o [i \in 1..Len(total) |-> total[i].cells]]

-----------------------------------------------------------------------------
\* The report formatter on the payloads of AgedReceivables (SpecFmt).

\* A data row and a grand-total section with the given cell texts.
DataRow(cells) ==
    [type |-> JStr("Data"), ColData |-> [i \in 1..Len(cells) |-> [value |-> JStr(cells[i])]]]
GrandTotalRow(cells) ==
    [type |-> JStr("Section"), group |-> JStr("GrandTotal"),
     Summary |-> [ColData |-> [i \in 1..Len(cells) |-> [value |-> JStr(cells[i])]]]]

\* Top-level rows a payload is made of.
FmtRows ==
    {DataRow(<<"Acme", "", "$10.00">>),
     DataRow(<<"Bolt", "1,234.5", "N/A">>),
     [ColData |-> <<[value |-> JStr("Cy")], [id |-> "7"], [value |-> JStr("-5")]>>],
     [type |-> JStr("Section"), ColData |-> <<[value |-> JStr("Overdue")]>>],
     [Header |-> [ColData |-> <<[value |-> JStr("Customers")]>>]],
     GrandTotalRow(<<"TOTAL", "0", "1,234.5">>),
     GrandTotalRow(<<"TOTAL", "n/a">>)}

RECURSIVE Seqs(_, _)
\* the sequences over S of length at most n
Seqs(S, n) ==
    IF n = 0 THEN {<<>>}
    ELSE LET shorter == Seqs(S, n - 1)
         IN  shorter \cup {Append(q, x) : q \in shorter, x \in S}

\* The payloads handed to the formatter.
FmtReports ==
    {[Rows |-> [Row |-> rows]] : rows \in Seqs(FmtRows, MaxRows)}
    \cup {[Rows |-> [Columns |-> <<>>]], [error |-> "QuickBooks API request failed"]}

InitFmt ==
    /\ clients = Range(Tenants)
    /\ access_token = [t \in Range(Tenants) |-> 0]
    /\ http_log = <<>>
    /\ refreshes = 0
    /\ call \in {[op |-> "input", report |-> r] : r \in FmtReports}
    /\ outcome = NoOutcome

FormatArReportCall ==
    /\ call.op = "input"
    /\ call' = [op |-> "format_ar_report", report |-> call.report]
    /\ \E r \in {format_ar_report(call.report)} :
            outcome' = [raised |-> r.raised, value |-> <<r.rows>>, exc |-> <<>>]
    /\ UNCHANGED <<clients, access_token, http_log, refreshes>>

NextFmt == FormatArReportCall

SpecFmt == InitFmt /\ [][NextFmt]_vars

-----------------------------------------------------------------------------
\* The tenant pool (SpecPool): MultiTenantQB.get_ar_aging over the sessions.

\* QuickBooksClient.get_ar_aging: the report, or {"error": str(e)} for whatever
\* _make_request raised.
get_ar_aging(s, token, report_date, script) ==
    LET params == "report_date=" \o report_date \o "&aging_period=30&num_periods=4&"
        r == _make_request(s, token, "GET", "reports/AgedReceivables", params, <<>>, script)
    IN  IF r.raised
        THEN Returned([error |-> r.exc[1].msg], r.token, r.sent, r.grants)
        ELSE r

\* d[key] = value on a dict
Put(d, key, value) ==
    [k \in DOMAIN d \cup {key} |-> IF k = key THEN value ELSE d[k]]

\* The loop's state after an iteration that stops storing reports once a
\* company's report could not be formatted.
PoolRecord_abort_on_failure(company, acc, raw) ==
    LET formatted == IF raw.raised THEN [raised |-> TRUE, rows |-> <<>>]
                     ELSE format_ar_report(raw.value[1])
    IN  [reports     |-> IF formatted.raised \/ acc.stopped THEN acc.reports
                         ELSE Put(acc.reports, company, formatted.rows),
         auth_errors |-> acc.auth_errors,
         stopped     |-> acc.stopped \/ formatted.raised,
         tokens      |-> [acc.tokens EXCEPT ![company] = raw.token],
         sent        |-> acc.sent \o raw.sent,
         grants      |-> acc.grants + raw.grants]

\* The try block of the loop of MultiTenantQB.get_ar_aging and its handlers,
\* given what client.get_ar_aging did (raw): the loop's state after `company`.
\* acc holds reports and auth_errors, and the sessions' tokens, the requests
\* and the grants so far.
PoolRecord(company, acc, raw) ==
    LET formatted == IF raw.raised THEN [raised |-> TRUE, rows |-> <<>>]
                     ELSE format_ar_report(raw.value[1])
    IN  [reports     |-> IF raw.raised \/ formatted.raised THEN acc.reports
                         ELSE Put(acc.reports, company, formatted.rows),
         auth_errors |-> IF raw.raised /\ raw.exc[1].type = "QuickBooksAuthError"
                         THEN Put(acc.auth_errors, company, raw.exc[1].msg)
                         ELSE acc.auth_errors,
         stopped     |-> FALSE,
         tokens      |-> [acc.tokens EXCEPT ![company] = raw.token],
         sent        |-> acc.sent \o raw.sent,
         grants      |-> acc.grants + raw.grants]

\* One iteration of the loop that stores an empty report for a company without
\* a session instead of skipping it
PoolStep_reporting_absent(company, sessions, report_date, scripts, acc) ==
    IF company \notin sessions THEN [acc EXCEPT !.reports = Put(acc.reports, company, <<>>)]
    ELSE The({PoolRecord(company, acc, raw) :
                raw \in {get_ar_aging(Session(company), acc.tokens[company],
                                      report_date, scripts[company])}})

\* One iteration of the loop, for `company`
PoolStep(company, sessions, report_date, scripts, acc) ==
    IF company \notin sessions THEN acc
    ELSE The({PoolRecord(company, acc, raw) :
                raw \in {get_ar_aging(Session(company), acc.tokens[company],
                                      report_date, scripts[company])}})

\* The loop of MultiTenantQB.get_ar_aging over `companies`
RECURSIVE PoolLoop(_, _, _, _, _)
PoolLoop(companies, sessions, report_date, scripts, acc) ==
    IF Len(companies) = 0 THEN acc
    ELSE The({PoolLoop(Tail(companies), sessions, report_date, scripts, next) :
                next \in {PoolStep(Head(companies), sessions, report_date, scripts, acc)}})

\* MultiTenantQB.get_ar_aging(companies) of a pool constructed for pool_companies
MultiTenantQB_get_ar_aging(companies, pool_companies, sessions, tokens, report_date, scripts) ==
    PoolLoop(IF Len(companies) = 0 THEN pool_companies ELSE companies,
             sessions, report_date, scripts,
             [reports |-> <<>>, auth_errors |-> <<>>, stopped |-> FALSE, tokens |-> tokens,
              sent |-> <<>>, grants |-> 0])

\* Report payloads of the backend: two well-formed ones and one whose money cell
\* is null, which the formatter cannot render.
ReportA == [Rows |-> [Row |-> <<DataRow(<<"Acme", "", "$10.00">>),
                                GrandTotalRow(<<"TOTAL", "0", "10">>)>>]]
ReportB == [Rows |-> [Row |-> <<DataRow(<<"Bolt", "1,234.5", "N/A">>)>>]]
ReportNull == [Rows |-> [Row |-> <<[ColData |-> <<[value |-> JStr("Dex")], [value |-> JNull]>>]>>]]

\* What the backend does during one tenant's report request.
PoolScripts ==
    {Script(JsonResponse(200, ReportA), GrantOk, NoResponse),
     Script(JsonResponse(200, ReportNull), GrantOk, NoResponse),
     Script(Unauthorized, GrantOk, JsonResponse(200, ReportB)),
     Script(Unauthorized, GrantOk, Unauthorized),
     Script(Unauthorized, GrantFailed("invalid_grant"), NoResponse),
     Script(JsonResponse(500, FaultBody("Internal error", "try later")), GrantOk, NoResponse),
     Script(NoResponse, GrantOk, NoResponse)}

\* The lists of distinct companies of length at most n
DistinctSeqs(S, n) == {q \in Seqs(S, n) : \A i, j \in 1..Len(q) : i # j => q[i] # q[j]}

\* The companies a call iterates: `companies or self.companies`
Iterated(companies) == IF Len(companies) = 0 THEN Companies ELSE companies

InitPool ==
    /\ clients = Range(Tenants)
    /\ access_token \in [Range(Tenants) -> 0..(MaxToken - 1)]
    /\ http_log = <<>>
    /\ refreshes = 0
    /\ call = Idle
    /\ outcome = NoOutcome

PoolGetArAging ==
    /\ call = Idle
    /\ \E companies \in DistinctSeqs(Range(Companies), MaxRequested) :
        \E scripts \in [Range(Iterated(companies)) \cap clients -> PoolScripts] :
            \E r \in {MultiTenantQB_get_ar_aging(companies, Companies, clients, access_token,
                                                   "2024-01-31", scripts)} :
                /\ call' = [op |-> "MultiTenantQB.get_ar_aging", companies |-> companies,
                            scripts |-> scripts]
                /\ access_token' = r.tokens
                /\ http_log' = r.sent
                /\ refreshes' = r.grants
                /\ outcome' = [raised |-> FALSE,
                               value |-> <<[reports |-> r.reports, auth_errors |-> r.auth_errors]>>,
                               exc |-> <<>>]
                /\ UNCHANGED clients

NextPool == PoolGetArAging

SpecPool == InitPool /\ [][NextPool]_vars

-----------------------------------------------------------------------------
\* Construction: QuickBooksClient.__init__ and MultiTenantQB.__init__ over the
\* process environment.

\* The variables __init__ reads for a company, and the values a configured
\* company has for them.
ClientIdVar == "QUICKBOOKS_CLIENT_ID"
ClientSecretVar == "QUICKBOOKS_CLIENT_SECRET"
RefreshTokenVar(company_prefix) == company_prefix \o "_QB_REFRESH_TOKEN"
RealmIdVar(company_prefix) == company_prefix \o "_QB_REALM_ID"
CredentialVars(company_prefix) ==
    <<ClientIdVar, ClientSecretVar, RefreshTokenVar(company_prefix), RealmIdVar(company_prefix)>>
Configured(company_prefix) ==
    <<Session(company_prefix).client_id, Session(company_prefix).client_secret,
      Session(company_prefix).refresh_token, Session(company_prefix).realm_id>>

\* os.getenv(name): the value, or None for a variable that is not set
getenv(env, name) == IF name \in DOMAIN env THEN JStr(env[name]) ELSE JNull

\* What a constructor did: the session it built or the exception it raised, the
\* access token it obtained and the number of grants it asked for.
Built(session, token) ==
    [raised |-> FALSE, exc |-> <<>>, session |-> <<session>>, token |-> token, grants |-> 1]
NotBuilt(exc, grants) ==
    [raised |-> TRUE, exc |-> <<exc>>, session |-> <<>>, token |-> 0, grants |-> grants]

\* The credential error of __init__
MissingCredentials(company_prefix) ==
    [type |-> "ValueError",
     msg |-> "Missing required QuickBooks credentials for " \o company_prefix]

\* __init__ without the test of the credentials: what is not set is taken as
\* empty
AfterGetenv_unchecked(company_prefix, read, grant) ==
    The({The({IF rf.raised THEN NotBuilt(rf.exc[1], 1) ELSE Built(s, rf.token) :
                rf \in {refresh_access_token(s, 0 - 1, grant)}}) :
            s \in {[company_prefix |-> company_prefix,
                    client_id      |-> IF Truthy(read[1]) THEN read[1][1] ELSE "",
                    client_secret  |-> IF Truthy(read[2]) THEN read[2][1] ELSE "",
                    refresh_token  |-> IF Truthy(read[3]) THEN read[3][1] ELSE "",
                    realm_id       |-> IF Truthy(read[4]) THEN read[4][1] ELSE ""]}})

\* __init__ after the four variables were read
AfterGetenv(company_prefix, read, grant) ==
    IF ~(\A i \in 1..4 : Truthy(read[i]))
    THEN NotBuilt(MissingCredentials(company_prefix), 0)
    ELSE The({The({IF rf.raised THEN NotBuilt(rf.exc[1], 1) ELSE Built(s, rf.token) :
                    rf \in {refresh_access_token(s, 0 - 1, grant)}}) :
                s \in {[company_prefix |-> company_prefix,
                        client_id      |-> read[1][1],
                        client_secret  |-> read[2][1],
                        refresh_token  |-> read[3][1],
                        realm_id       |-> read[4][1]]}})

\* QuickBooksClient.__init__
QuickBooksClient(company_prefix, env, grant) ==
    AfterGetenv(company_prefix,
                [i \in 1..4 |-> getenv(env, CredentialVars(company_prefix)[i])],
                grant)

\* The pool under construction.
Pool(raised, exc, sessions, tokens, grants) ==
    [raised |-> raised, exc |-> exc, clients |-> sessions, tokens |-> tokens, grants |-> grants]

\* One round of _initialize_clients: ValueError is caught, anything else leaves
\* the loop and the constructor
InitializeClient(company, acc, built) ==
    IF built.raised
    THEN IF built.exc[1].type = "ValueError"
         THEN Pool(FALSE, <<>>, acc.clients, acc.tokens, acc.grants + built.grants)
         ELSE Pool(TRUE, built.exc, acc.clients, acc.tokens, acc.grants + built.grants)
    ELSE Pool(FALSE, <<>>, Put(acc.clients, company, built.session[1]),
              Put(acc.tokens, company, built.token), acc.grants + built.grants)

RECURSIVE _initialize_clients(_, _, _, _)
\* MultiTenantQB._initialize_clients
_initialize_clients(companies, env, grants, acc) ==
    IF acc.raised \/ Len(companies) = 0 THEN acc
    ELSE The({_initialize_clients(Tail(companies), env, grants, next) :
                next \in {The({InitializeClient(Head(companies), acc, built) :
                            built \in {QuickBooksClient(Head(companies), env,
                                                        grants[Head(companies)])}})}})

\* MultiTenantQB.__init__
MultiTenantQB(companies, env, grants) ==
    _initialize_clients(Iterated(companies), env, grants, Pool(FALSE, <<>>, <<>>, <<>>, 0))

\* The environments of one company: each of its variables is set, empty or not
\* set.
ClientEnvs(company_prefix) ==
    {[v \in {CredentialVars(company_prefix)[i] : i \in {j \in 1..4 : f[j] # "unset"}} |->
        The({IF f[i] = "set" THEN Configured(company_prefix)[i] ELSE "" :
                i \in {j \in 1..4 : CredentialVars(company_prefix)[j] = v}})] :
     f \in [1..4 -> {"set", "empty", "unset"}]}

\* The environments of a pool: the client id is set or empty, and each company's
\* refresh token is set or not.
PoolEnvs(companies) ==
    {[v \in {ClientIdVar, ClientSecretVar} \cup {RealmIdVar(c) : c \in companies}
            \cup {RefreshTokenVar(c) : c \in with_token} |->
        IF v = ClientIdVar THEN client_id
        ELSE IF v = ClientSecretVar THEN Session(DJANGO).client_secret
        ELSE The({IF v = RealmIdVar(c) THEN Session(c).realm_id ELSE Session(c).refresh_token :
                    c \in {d \in companies : v \in {RealmIdVar(d), RefreshTokenVar(d)}}})] :
     client_id \in {Session(DJANGO).client_id, ""}, with_token \in SUBSET companies}

\* Answers of the token endpoint to the grant of a constructor.
InitialGrants == {GrantOk, GrantFailed("invalid_grant"), GrantFailed("503 unavailable")}

\* What the backend does during a report request of a constructed pool.
BootScripts ==
    {Script(JsonResponse(200, ReportA), GrantOk, NoResponse),
     Script(JsonResponse(500, FaultBody("Internal error", "try later")), GrantOk, NoResponse)}

InitBoot ==
    /\ clients = {}
    /\ access_token = <<>>
    /\ http_log = <<>>
    /\ refreshes = 0
    /\ call = Idle
    /\ outcome = NoOutcome

ConstructClient ==
    /\ call = Idle
    /\ \E company_prefix \in Range(Companies), grant \in InitialGrants :
        \E env \in ClientEnvs(company_prefix) :
            \E r \in {QuickBooksClient(company_prefix, env, grant)} :
                /\ call' = [op |-> "QuickBooksClient", company_prefix |-> company_prefix,
                            env |-> env, grant |-> grant]
                /\ clients' = IF r.raised THEN {} ELSE {company_prefix}
                /\ access_token' = IF r.raised THEN <<>>
                                   ELSE [c \in {company_prefix} |-> r.token]
                /\ refreshes' = r.grants
                /\ outcome' = [raised |-> r.raised, value |-> r.session, exc |-> r.exc]
                /\ UNCHANGED http_log

ConstructPool ==
    /\ call = Idle
    /\ \E companies \in DistinctSeqs(Range(Companies), MaxPool) :
        \E env \in PoolEnvs(Range(Iterated(companies))),
           grants \in [Range(Iterated(companies)) -> {GrantOk, GrantFailed("invalid_grant")}] :
            \E r \in {MultiTenantQB(companies, env, grants)} :
                /\ call' = [op |-> "MultiTenantQB", companies |-> companies, env |-> env,
                            grants |-> grants]
                /\ clients' = IF r.raised THEN {} ELSE DOMAIN r.clients
                /\ access_token' = IF r.raised THEN <<>> ELSE r.tokens
                /\ refreshes' = r.grants
                /\ outcome' = [raised |-> r.raised, value |-> <<>>, exc |-> r.exc]
                /\ UNCHANGED http_log

\* get_ar_aging of the pool that was constructed, for all of its companies or
\* for one company.
ConstructedGetArAging ==
    /\ call.op = "MultiTenantQB"
    /\ ~outcome.raised
    /\ \E companies \in {<<>>} \cup {<<c>> : c \in Range(Companies)} :
        \E scripts \in [Range(IF Len(companies) = 0 THEN Iterated(call.companies) ELSE companies)
                            \cap clients -> BootScripts] :
            \E r \in {MultiTenantQB_get_ar_aging(companies, Iterated(call.companies), clients,
                                                   access_token, "2024-01-31", scripts)} :
                /\ call' = [op |-> "MultiTenantQB.get_ar_aging", companies |-> companies,
                            scripts |-> scripts,
                            pool |-> [companies |-> Iterated(call.companies), env |-> call.env]]
                /\ access_token' = r.tokens
                /\ http_log' = r.sent
                /\ refreshes' = refreshes + r.grants
                /\ outcome' = [raised |-> FALSE,
                               value |-> <<[reports |-> r.reports, auth_errors |-> r.auth_errors]>>,
                               exc |-> <<>>]
                /\ UNCHANGED clients

NextBoot == ConstructClient \/ ConstructPool \/ ConstructedGetArAging

SpecBoot == InitBoot /\ [][NextBoot]_vars

-----------------------------------------------------------------------------
\* Entity resolution: _map_item_name, get_item_id, get_customer_id, and the
\* backend's query endpoint.

\* item_mapping with 'Placement Fees' renamed to another key of the table
item_mapping_chained ==
    ("Management Fees" :> "Management Fee")
    @@ ("4100 - Rent Income" :> "Sales")
    @@ ("4440 - Application Fee Income" :> "Application Fee")
    @@ ("General Labor: General Labor" :> "General Labor")
    @@ ("Placement Fees" :> "Commissions/Placement Fees")
    @@ ("Commissions/Placement Fees" :> "Commission")
    @@ ("4460 - Late Fee" :> "Late Fee")
    @@ ("Supplies" :> "Sales")
    @@ ("6175 - Garbage and Recycling" :> "Sales")
    @@ ("6040 - Pest Management" :> "Pest Control Contractors")
    @@ ("6101 - Legal Fees" :> "Legal Services")
    @@ ("6141 - Painting" :> "Painting supplies")
    @@ ("2120 - Clearing Account" :> "Sales")

\* The table of _map_item_name
item_mapping ==
    ("Management Fees" :> "Management Fee")
    @@ ("4100 - Rent Income" :> "Sales")
    @@ ("4440 - Application Fee Income" :> "Application Fee")
    @@ ("General Labor: General Labor" :> "General Labor")
    @@ ("Placement Fees" :> "Commission")
    @@ ("Commissions/Placement Fees" :> "Commission")
    @@ ("4460 - Late Fee" :> "Late Fee")
    @@ ("Supplies" :> "Sales")
    @@ ("6175 - Garbage and Recycling" :> "Sales")
    @@ ("6040 - Pest Management" :> "Pest Control Contractors")
    @@ ("6101 - Legal Fees" :> "Legal Services")
    @@ ("6141 - Painting" :> "Painting supplies")
    @@ ("2120 - Clearing Account" :> "Sales")

\* QuickBooksClient._map_item_name: item_mapping.get(original_name, original_name)
_map_item_name(original_name) ==
    IF original_name \in DOMAIN item_mapping THEN item_mapping[original_name]
    ELSE original_name

\* The item types an invoice line may carry.
Billable == {"Service", "Inventory", "NonInventory"}

\* The queries the client sends.
ExactItemPrefix == "SELECT Id, Type FROM Item WHERE Name = '"
ExactItemQuery(name) == ExactItemPrefix \o name \o "'"
LikeItemPrefix ==
    "SELECT Id, Name, Type FROM Item WHERE Type IN ('Service', 'Inventory', 'NonInventory') AND Name LIKE '%"
LikeItemQuery(name) == LikeItemPrefix \o name \o "%'"
ListItemsQuery == "SELECT Name, Type FROM Item WHERE Type IN ('Service', 'Inventory', 'NonInventory')"
CustomerQuery(name) == "SELECT Id FROM Customer WHERE DisplayName = '" \o name \o "'"

\* The text between a query's prefix and its closing suffix of n characters.
Operand(query, prefix, n) == SubSeq(query, Len(prefix) + 1, Len(query) - n)

\* The backend's rows for an item query, in the catalog's order.
BackendItems(catalog, query) ==
    IF MatchAt(query, ExactItemPrefix, 1)
    THEN SelectSeq(catalog, LAMBDA it : it.Name = Operand(query, ExactItemPrefix, 1))
    ELSE IF MatchAt(query, LikeItemPrefix, 1)
    THEN SelectSeq(catalog,
            LAMBDA it : /\ it.Type \in Billable
                        /\ Contains(it.Name, Operand(query, LikeItemPrefix, 2)))
    ELSE SelectSeq(catalog, LAMBDA it : it.Type \in Billable)

\* The body of a query response: the entity key is absent when no row matches.
QueryResponse(entity, rows) ==
    [QueryResponse |-> IF Len(rows) = 0 THEN <<>> ELSE [k \in {entity} |-> rows]]

\* How the backend treats one query: it answers, answers after demanding a fresh
\* token, or fails.
Transports == {"ok", "refresh", "error"}
AnswerScript(transport, body) ==
    CASE transport = "ok"      -> Script(JsonResponse(200, body), GrantOk, NoResponse)
      [] transport = "refresh" -> Script(Unauthorized, GrantOk, JsonResponse(200, body))
      [] OTHER -> Script(JsonResponse(500, FaultBody("Internal error", "try later")),
                         GrantOk, NoResponse)

\* response['QueryResponse'][entity] when both keys are present, else nothing
Rows(response, entity) ==
    IF "QueryResponse" \in DOMAIN response /\ entity \in DOMAIN response.QueryResponse
    THEN response.QueryResponse[entity] ELSE <<>>
HasRows(response, entity) ==
    "QueryResponse" \in DOMAIN response /\ entity \in DOMAIN response.QueryResponse

\* A later call's result with the requests and grants of the calls before it.
Following(before, r) ==
    [r EXCEPT !.sent = before.sent \o @, !.grants = before.grants + @]

CategoryError(mapped_name) ==
    PlainException("Item '" \o mapped_name \o "' is set up as a category in QuickBooks. "
                   \o "Please create it as a Service, Inventory, or NonInventory item.")

NotFoundError(mapped_name, items) ==
    PlainException("Item '" \o mapped_name \o "' not found in QuickBooks. Available items are: "
                   \o Join([i \in 1..Len(items) |->
                                items[i].Name \o " (" \o Get(items[i], "Type", "Unknown") \o ")"], ", "))

\* get_item_id after the fallback search r2 for billable items like the name
AfterLikeQuery(mapped_name, r1, r2) ==
    IF r2.raised THEN Following(r1, r2)
    ELSE IF Len(Rows(r2.value[1], "Item")) > 0
    THEN Returned(JStr(Rows(r2.value[1], "Item")[1].Id), r2.token, r1.sent \o r2.sent,
                  r1.grants + r2.grants)
    ELSE Raised(CategoryError(mapped_name), r2.token, r1.sent \o r2.sent, r1.grants + r2.grants)

\* get_item_id after the listing r3 of the available items
AfterListQuery(mapped_name, r1, r3) ==
    IF r3.raised THEN Following(r1, r3)
    ELSE IF HasRows(r3.value[1], "Item")
    THEN Raised(NotFoundError(mapped_name, Rows(r3.value[1], "Item")), r3.token,
                r1.sent \o r3.sent, r1.grants + r3.grants)
    ELSE Returned(JNull, r3.token, r1.sent \o r3.sent, r1.grants + r3.grants)

\* The script of the n-th query of a call against the backend
Answer(backend, n, query) ==
    AnswerScript(backend.transports[n], QueryResponse("Item", BackendItems(backend.catalog, query)))

\* get_item_id after the exact-name query r1, without the test of the item's type
AfterExactQuery_any_type(s, mapped_name, backend, r1) ==
    IF r1.raised THEN r1
    ELSE IF Len(Rows(r1.value[1], "Item")) > 0
    THEN Returned(JStr(Rows(r1.value[1], "Item")[1].Id), r1.token, r1.sent, r1.grants)
    ELSE The({AfterListQuery(mapped_name, r1, r3) :
                r3 \in {_query_direct(s, r1.token, ListItemsQuery,
                                      Answer(backend, 2, ListItemsQuery))}})

\* get_item_id after the exact-name query r1
AfterExactQuery(s, mapped_name, backend, r1) ==
    IF r1.raised THEN r1
    ELSE IF Len(Rows(r1.value[1], "Item")) > 0
    THEN LET item == Rows(r1.value[1], "Item")[1]
         IN  IF Get(item, "Type", "None") \notin Billable
             THEN The({AfterLikeQuery(mapped_name, r1, r2) :
                        r2 \in {_query_direct(s, r1.token, LikeItemQuery(mapped_name),
                                              Answer(backend, 2, LikeItemQuery(mapped_name)))}})
             ELSE Returned(JStr(item.Id), r1.token, r1.sent, r1.grants)
    ELSE The({AfterListQuery(mapped_name, r1, r3) :
                r3 \in {_query_direct(s, r1.token, ListItemsQuery,
                                      Answer(backend, 2, ListItemsQuery))}})

\* QuickBooksClient.get_item_id: returns the id (JNull for None) or raises
get_item_id(s, token, item_name, backend) ==
    The({The({AfterExactQuery(s, mapped_name, backend, r1) :
                r1 \in {_query_direct(s, token, ExactItemQuery(mapped_name),
                                      Answer(backend, 1, ExactItemQuery(mapped_name)))}}) :
            mapped_name \in {_map_item_name(item_name)}})

\* The backend's items; names are unique in a QuickBooks company.
ItemPool ==
    {[Id |-> "1", Name |-> "Sales", Type |-> "Category"],
     [Id |-> "2", Name |-> "Sales - Retail", Type |-> "Service"],
     [Id |-> "3", Name |-> "Management Fee", Type |-> "Service"],
     [Id |-> "4", Name |-> "Wholesale Sales", Type |-> "Inventory"],
     [Id |-> "5", Name |-> "Commission", Type |-> "Category"]}

Catalogs == DistinctSeqs(ItemPool, MaxItems)

\* Names a caller asks for: every key of the table and names outside it.
ItemNames == DOMAIN item_mapping \cup {"Sales", "Management Fee", "Widget"}

InitItem ==
    /\ clients = {DJANGO}
    /\ access_token = [t \in {DJANGO} |-> 0]
    /\ http_log = <<>>
    /\ refreshes = 0
    /\ call = Idle
    /\ outcome = NoOutcome

GetItemIdCall ==
    /\ call = Idle
    /\ \E t \in clients, item_name \in ItemNames, catalog \in Catalogs,
          transports \in [1..2 -> Transports] :
        /\ call' = [op |-> "get_item_id", tenant |-> t, item_name |-> item_name,
                    backend |-> [catalog |-> catalog, transports |-> transports],
                    token |-> access_token[t]]
        /\ \E r \in {get_item_id(Session(t), access_token[t], item_name,
                                 [catalog |-> catalog, transports |-> transports])} :
                Effect(t, r)

NextItem == GetItemIdCall

SpecItem == InitItem /\ [][NextItem]_vars

-----------------------------------------------------------------------------
\* Transactions: _format_transaction and get_transactions.

\* A JSON number, kept in hundredths.
JNum(cents) == <<"number", cents>>

\* float(v): a number is itself, a text is parsed (ValueError when it is no
\* number), None is a TypeError
PyFloat(v) ==
    IF v = JNull
    THEN [raised |-> TRUE, value |-> 0,
          exc |-> <<[type |-> "TypeError",
                     msg |-> "float() argument must be a string or a real number, not 'NoneType'"]>>]
    ELSE IF Len(v) = 2 THEN [raised |-> FALSE, value |-> v[2], exc |-> <<>>]
    ELSE The({IF parsed.ok
              THEN [raised |-> FALSE, value |-> IF parsed.neg THEN 0 - parsed.cents ELSE parsed.cents,
                    exc |-> <<>>]
              ELSE [raised |-> TRUE, value |-> 0,
                    exc |-> <<[type |-> "ValueError",
                               msg |-> "could not convert string to float: '" \o v[1] \o "'"]>>] :
                parsed \in {ParseFloat(v[1])}})

\* d.get(outer, {}).get(inner, default)
Get2(d, outer, inner, default) ==
    IF outer \in DOMAIN d THEN Get(d[outer], inner, default) ELSE default

\* The detail types whose AccountRef a line item takes.
DetailTypes == {"AccountBasedExpenseLineDetail", "SalesItemLineDetail", "JournalEntryLineDetail"}

\* account_ref of a line: the AccountRef of the detail named by DetailType, {}
\* when it has none, None for another detail type
AccountRef(line) ==
    IF line.DetailType # JNull /\ line.DetailType[1] \in DetailTypes
    THEN Get2(line, line.DetailType[1], "AccountRef", <<>>)
    ELSE <<>>

\* One entry of line_items, or the exception of float()
LineItem(line) ==
    The({IF amount.raised THEN amount
         ELSE [raised |-> FALSE, exc |-> <<>>,
               value |-> [amount |-> amount.value,
                          description |-> Get(line, "Description", JStr("")),
                          account_id |-> Get(AccountRef(line), "value", JStr("")),
                          account_name |-> Get(AccountRef(line), "name", JStr("")),
                          detail_type |-> Get(line, "DetailType", JStr("")),
                          line_num |-> Get(line, "LineNum", JStr(""))]] :
            amount \in {PyFloat(Get(line, "Amount", JNum(0)))}})

RECURSIVE LineItems(_, _)
\* The loop over txn['Line'], which QuickBooks sends as a list: lines without
\* DetailType are left out, and the first float() that raises ends it
LineItems(lines, acc) ==
    IF acc.raised \/ Len(lines) = 0 THEN acc
    ELSE IF "DetailType" \notin DOMAIN Head(lines) THEN LineItems(Tail(lines), acc)
    ELSE The({LineItems(Tail(lines),
                        IF item.raised THEN [raised |-> TRUE, exc |-> item.exc, value |-> <<>>]
                        ELSE [acc EXCEPT !.value = Append(@, item.value)]) :
                item \in {LineItem(Head(lines))}})

\* The fields every kind of transaction gets
BasicInfo(txn, txn_type, amount) ==
    [id |-> Get(txn, "Id", JNull),
     type |-> txn_type,
     date |-> Get(txn, "TxnDate", JStr("")),
     amount |-> amount,
     memo |-> Or(Or(Get(txn, "PrivateNote", JStr("")), Get(txn, "DocNumber", JStr(""))), JStr("")),
     entity_name |-> Or(Get2(txn, "VendorRef", "name", JStr("")),
                        Get2(txn, "CustomerRef", "name", JStr(""))),
     entity_id |-> Or(Get2(txn, "VendorRef", "value", JStr("")),
                      Get2(txn, "CustomerRef", "value", JStr(""))),
     payment_type |-> Get(txn, "PaymentType", JStr("")),
     doc_number |-> Get(txn, "DocNumber", JStr("")),
     private_note |-> Get(txn, "PrivateNote", JStr("")),
     sync_token |-> Get(txn, "SyncToken", JStr("")),
     meta_data |-> [create_time |-> Get2(txn, "MetaData", "CreateTime", JStr("")),
                    last_updated_time |-> Get2(txn, "MetaData", "LastUpdatedTime", JStr(""))]]

\* The fields of the line items and of the first line's account
AccountInfo(line_items) ==
    [line_items |-> line_items,
     account_id |-> IF Len(line_items) > 0 THEN line_items[1].account_id ELSE JStr(""),
     account_name |-> IF Len(line_items) > 0 THEN line_items[1].account_name ELSE JStr("")]

\* The fields added for the kind of the transaction; a Bill takes float(Balance)
KindInfo(txn, txn_type) ==
    CASE txn_type = "Purchase" ->
            [raised |-> FALSE, exc |-> <<>>,
             value |-> [payment_method |-> Get2(txn, "PaymentMethodRef", "name", JStr("")),
                        credit |-> Get(txn, "Credit", FALSE),
                        currency |-> Get2(txn, "CurrencyRef", "name", JStr("USD"))]]
      [] txn_type = "Bill" ->
            The({IF balance.raised THEN balance
                 ELSE [raised |-> FALSE, exc |-> <<>>,
                       value |-> [due_date |-> Get(txn, "DueDate", JStr("")),
                                  balance |-> balance.value,
                                  status |-> Get(txn, "Status", JStr(""))]] :
                    balance \in {PyFloat(Get(txn, "Balance", JNum(0)))}})
      [] txn_type = "Expense" ->
            [raised |-> FALSE, exc |-> <<>>,
             value |-> [payment_method |-> Get2(txn, "PaymentMethodRef", "name", JStr("")),
                        check_number |-> Get(txn, "CheckNum", JStr(""))]]
      [] txn_type = "JournalEntry" ->
            [raised |-> FALSE, exc |-> <<>>,
             value |-> [adjustment |-> Get(txn, "Adjustment", FALSE)]]
      [] OTHER -> [raised |-> FALSE, exc |-> <<>>, value |-> <<>>]

\* _format_transaction after the three groups of fields were computed: the
\* first exception in the order of the code is re-raised
Formatted(txn, txn_type, amount, items, kind) ==
    IF amount.raised THEN [raised |-> TRUE, exc |-> amount.exc, value |-> <<>>]
    ELSE IF items.raised THEN [raised |-> TRUE, exc |-> items.exc, value |-> <<>>]
    ELSE IF kind.raised THEN [raised |-> TRUE, exc |-> kind.exc, value |-> <<>>]
    ELSE [raised |-> FALSE, exc |-> <<>>,
          value |-> <<BasicInfo(txn, txn_type, amount.value) @@ AccountInfo(items.value)
                      @@ kind.value>>]

\* QuickBooksClient._format_transaction: the record, or the exception raised
_format_transaction(txn, txn_type) ==
    The({Formatted(txn, txn_type, amount, items, kind) :
            amount \in {PyFloat(Get(txn, "TotalAmt", JNum(0)))},
            items \in {LineItems(Get(txn, "Line", <<>>),
                                 [raised |-> FALSE, exc |-> <<>>, value |-> <<>>])},
            kind \in {KindInfo(txn, txn_type)}})

\* transaction_types
transaction_types == <<"Purchase", "Bill", "Expense", "JournalEntry">>

\* The query of one kind, as the f-string lays it out
TransactionQuery(txn_type, start_date, end_date) ==
    "\n                    SELECT * FROM " \o txn_type \o " "
    \o "\n                    WHERE TxnDate >= '" \o start_date \o "' "
    \o "\n                    AND TxnDate <= '" \o end_date \o "'"
    \o "\n                "

\* A line item of the account the receipts are filed under
has_matching_account(formatted) ==
    \E i \in 1..Len(formatted.line_items) :
        formatted.line_items[i].account_name = JStr("6300 Reimbursable Expenses")

\* The lists of a get_transactions call between two steps.
Collected(all_transactions, filtered_transactions, token, sent, grants) ==
    [all_transactions |-> all_transactions, filtered_transactions |-> filtered_transactions,
     token |-> token, sent |-> sent, grants |-> grants]

\* The record loop's body when a failed normalization empties the lists
Collect_dropping_batch(acc, formatted) ==
    IF formatted.raised
    THEN Collected(<<>>, <<>>, acc.token, acc.sent, acc.grants)
    ELSE Collected(Append(acc.all_transactions, formatted.value[1]),
                   IF has_matching_account(formatted.value[1])
                   THEN Append(acc.filtered_transactions, formatted.value[1])
                   ELSE acc.filtered_transactions,
                   acc.token, acc.sent, acc.grants)

\* The record loop's body: a formatted record joins the lists, a failed one is
\* logged and skipped
Collect(acc, formatted) ==
    IF formatted.raised THEN acc
    ELSE Collected(Append(acc.all_transactions, formatted.value[1]),
                   IF has_matching_account(formatted.value[1])
                   THEN Append(acc.filtered_transactions, formatted.value[1])
                   ELSE acc.filtered_transactions,
                   acc.token, acc.sent, acc.grants)

RECURSIVE RecordLoop(_, _, _)
\* for txn in transactions
RecordLoop(transactions, txn_type, acc) ==
    IF Len(transactions) = 0 THEN acc
    ELSE The({RecordLoop(Tail(transactions), txn_type, next) :
                next \in {Collect(acc, _format_transaction(Head(transactions), txn_type))}})

\* The kind loop's body after the query r: a failed query is logged and the
\* next kind follows
AfterKindQuery(txn_type, acc, r) ==
    The({IF ~r.raised /\ HasRows(r.value[1], txn_type)
         THEN RecordLoop(Rows(r.value[1], txn_type), txn_type, seen)
         ELSE seen :
            seen \in {Collected(acc.all_transactions, acc.filtered_transactions, r.token,
                                acc.sent \o r.sent, acc.grants + r.grants)}})

RECURSIVE KindLoop(_, _, _, _, _, _)
\* for txn_type, _ in transaction_types
KindLoop(s, kinds, start_date, end_date, backend, acc) ==
    IF Len(kinds) = 0 THEN acc
    ELSE The({KindLoop(s, Tail(kinds), start_date, end_date, backend, next) :
                next \in {The({AfterKindQuery(Head(kinds), acc, r) :
                            r \in {_query_direct(s, acc.token,
                                      TransactionQuery(Head(kinds), start_date, end_date),
                                      AnswerScript(backend[Head(kinds)].transport,
                                                   QueryResponse(Head(kinds),
                                                                 backend[Head(kinds)].rows)))}})}})

\* sort(key=date, reverse=True) is stable: a record goes behind the records whose
\* date is not smaller.
RECURSIVE InsertNewest(_, _)
InsertNewest(sorted, x) ==
    IF Len(sorted) = 0 THEN <<x>>
    ELSE IF StrLess(sorted[Len(sorted)].date[1], x.date[1])
    THEN Append(InsertNewest(SubSeq(sorted, 1, Len(sorted) - 1), x), sorted[Len(sorted)])
    ELSE Append(sorted, x)

RECURSIVE NewestFirst(_)
NewestFirst(records) ==
    IF Len(records) = 0 THEN <<>>
    ELSE InsertNewest(NewestFirst(SubSeq(records, 1, Len(records) - 1)), records[Len(records)])

\* QuickBooksClient.get_transactions(start_date, end_date) with both dates given
get_transactions(s, token, start_date, end_date, backend) ==
    The({Returned(IF Len(done.filtered_transactions) = 0 THEN done.all_transactions
                  ELSE NewestFirst(done.filtered_transactions),
                  done.token, done.sent, done.grants) :
            done \in {KindLoop(s, transaction_types, start_date, end_date, backend,
                               Collected(<<>>, <<>>, token, <<>>, 0))}})

\* Lines and transactions of the backend.
ExpenseLine(amount, account_name) ==
    [DetailType |-> JStr("AccountBasedExpenseLineDetail"), Amount |-> amount,
     Description |-> JStr("line"),
     AccountBasedExpenseLineDetail |->
        [AccountRef |-> [value |-> JStr("63"), name |-> JStr(account_name)]]]

Reimbursable == "6300 Reimbursable Expenses"

TxnFuel ==
    [Id |-> JStr("101"), TxnDate |-> JStr("2024-02-01"), TotalAmt |-> JNum(10000),
     PrivateNote |-> JStr("fuel"), VendorRef |-> [name |-> JStr("Shell"), value |-> JStr("7")],
     Line |-> <<ExpenseLine(JNum(10000), Reimbursable)>>]
TxnPaint ==
    [Id |-> JStr("102"), TxnDate |-> JStr("2024-03-01"), TotalAmt |-> JStr("12.50"),
     DocNumber |-> JStr("D-9"), Balance |-> JNum(1250),
     Line |-> <<ExpenseLine(JStr("12.5"), "5000 Supplies")>>]
TxnUnparsable ==
    [Id |-> JStr("103"), TxnDate |-> JStr("2024-02-10"), TotalAmt |-> JStr("N/A"),
     Line |-> <<ExpenseLine(JNum(700), Reimbursable)>>]
TxnBare == [Id |-> JStr("104"), TxnDate |-> JStr("2024-01-15")]
TxnBadBalance ==
    [Id |-> JStr("105"), TxnDate |-> JStr("2024-02-20"), TotalAmt |-> JNum(500),
     Balance |-> JStr("n/a"), Line |-> <<ExpenseLine(JNum(500), Reimbursable)>>]
TxnBadLine ==
    [Id |-> JStr("106"), TxnDate |-> JStr("2024-02-25"), TotalAmt |-> JNum(900),
     Line |-> <<ExpenseLine(JNum(400), Reimbursable), ExpenseLine(JStr("four"), Reimbursable)>>]
TxnTolls ==
    [Id |-> JStr("107"), TxnDate |-> JStr("2024-02-15"), TotalAmt |-> JNum(2575),
     Line |-> <<[Amount |-> JNum(75)], ExpenseLine(JNum(2500), Reimbursable)>>]

TxnPool == {TxnFuel, TxnPaint, TxnUnparsable, TxnBare, TxnTolls}

\* What the backend holds of each kind, and whether it answers the query.
Holding(transport, rows) == [transport |-> transport, rows |-> rows]
Backends ==
    {[k \in Range(transaction_types) |->
        CASE k = "Purchase" -> purchase
          [] k = "Bill" -> bill
          [] k = "Expense" -> expense
          [] OTHER -> journal] :
     purchase \in {Holding("ok", rows) : rows \in Seqs(TxnPool, MaxTxns)}
                    \cup {Holding("error", <<>>)},
     bill \in {Holding("ok", <<>>), Holding("ok", <<TxnBadBalance>>), Holding("ok", <<TxnPaint>>),
               Holding("error", <<>>)},
     expense \in {Holding("ok", <<>>), Holding("ok", <<TxnBadLine>>), Holding("refresh", <<TxnFuel>>)},
     journal \in {Holding("ok", <<TxnBare>>), Holding("error", <<>>)}}

InitTxn ==
    /\ clients = {DJANGO}
    /\ access_token = [t \in {DJANGO} |-> 0]
    /\ http_log = <<>>
    /\ refreshes = 0
    /\ call = Idle
    /\ outcome = NoOutcome

FormatTransactionCall ==
    /\ call = Idle
    /\ \E txn \in TxnPool \cup {TxnBadBalance, TxnBadLine}, txn_type \in Range(transaction_types) :
        \E r \in {_format_transaction(txn, txn_type)} :
            /\ call' = [op |-> "_format_transaction", txn |-> txn, txn_type |-> txn_type]
            /\ outcome' = [raised |-> r.raised, value |-> r.value, exc |-> r.exc]
            /\ UNCHANGED <<clients, access_token, http_log, refreshes>>

GetTransactionsCall ==
    /\ call = Idle
    /\ \E t \in clients, backend \in Backends :
        /\ call' = [op |-> "get_transactions", tenant |-> t, backend |-> backend,
                    token |-> access_token[t]]
        /\ \E r \in {get_transactions(Session(t), access_token[t], "2024-01-01", "2024-03-31",
                                      backend)} :
                Effect(t, r)

NextTxn == FormatTransactionCall \/ GetTransactionsCall

SpecTxn == InitTxn /\ [][NextTxn]_vars

-----------------------------------------------------------------------------
\* Invoice creation: get_customer_id and create_invoice.

\* get_customer_id without the handler of exceptions
get_customer_id_raising(s, token, customer_name, script) ==
    The({IF r.raised THEN r
         ELSE IF Len(Rows(r.value[1], "Customer")) > 0
         THEN Returned(JStr(Rows(r.value[1], "Customer")[1].Id), r.token, r.sent, r.grants)
         ELSE Returned(JNull, r.token, r.sent, r.grants) :
            r \in {_query_direct(s, token, CustomerQuery(customer_name), script)}})

\* QuickBooksClient.get_customer_id: the id, or None (JNull) also when the query
\* raised
get_customer_id(s, token, customer_name, script) ==
    The({IF r.raised THEN Returned(JNull, r.token, r.sent, r.grants)
         ELSE IF Len(Rows(r.value[1], "Customer")) > 0
         THEN Returned(JStr(Rows(r.value[1], "Customer")[1].Id), r.token, r.sent, r.grants)
         ELSE Returned(JNull, r.token, r.sent, r.grants) :
            r \in {_query_direct(s, token, CustomerQuery(customer_name), script)}})

\* text.split(sep)[0]
BeforeFirst(text, sep) ==
    IF Contains(text, sep) THEN SubSeq(text, 1, Find(text, sep) - 1) ELSE text

\* get_property_address of create_invoice
get_property_address(item) ==
    The({Strip(IF Contains(desc, "Management Fees")
               THEN BeforeFirst(desc, "Management Fees")
               ELSE BeforeFirst(desc, "-")) :
            desc \in {Get(item, "Description", "")}})

\* The sort key without the property address
SortKey_date_only(item) ==
    <<"", Or(Get(item, "ServiceDate", JNull), Get(item, "InvoiceDate", JStr("")))[1]>>

\* The sort key of create_invoice: (address, ServiceDate or InvoiceDate or '')
SortKey(item) ==
    <<get_property_address(item),
      Or(Get(item, "ServiceDate", JNull), Get(item, "InvoiceDate", JStr("")))[1]>>

\* Tuple comparison a < b of two keys
KeyLess(a, b) == StrLess(a[1], b[1]) \/ (a[1] = b[1] /\ StrLess(a[2], b[2]))

\* list.sort is stable: an item goes behind the items whose key is not greater.
RECURSIVE Insert(_, _)
Insert(sorted, x) ==
    IF Len(sorted) = 0 THEN <<x>>
    ELSE IF KeyLess(SortKey(x), SortKey(sorted[Len(sorted)]))
    THEN Append(Insert(SubSeq(sorted, 1, Len(sorted) - 1), x), sorted[Len(sorted)])
    ELSE Append(sorted, x)

RECURSIVE invoice_items(_)
\* items.copy() sorted by SortKey
invoice_items(items) ==
    IF Len(items) = 0 THEN <<>>
    ELSE Insert(invoice_items(SubSeq(items, 1, Len(items) - 1)), items[Len(items)])

RECURSIVE Customers(_)
\* The keys of customer_invoices in insertion order
Customers(sorted) ==
    IF Len(sorted) = 0 THEN <<>>
    ELSE The({IF sorted[Len(sorted)].Customer \in Range(before) THEN before
              ELSE Append(before, sorted[Len(sorted)].Customer) :
                before \in {Customers(SubSeq(sorted, 1, Len(sorted) - 1))}})

\* customer_invoices[customer] when each item replaces the list instead of
\* joining it
customer_items_replaced(sorted, customer) ==
    The({<<own[Len(own)]>> : own \in {SelectSeq(sorted, LAMBDA it : it.Customer = customer)}})

\* customer_invoices[customer]
customer_items(sorted, customer) == SelectSeq(sorted, LAMBDA it : it.Customer = customer)

\* str() of a number given in hundredths, or of None
PyStr(v) ==
    IF v = JNull THEN "None"
    ELSE NatStr(v[1] \div 100) \o "."
         \o (IF v[1] % 10 = 0 THEN NatStr((v[1] % 100) \div 10) ELSE Padded(v[1] % 100, 2))

\* datetime.now().strftime('%Y-%m-%d') and ('%Y%m%d-%H%M%S')
StrfDate(now) == Padded(now.year, 4) \o "-" \o Padded(now.month, 2) \o "-" \o Padded(now.day, 2)
StrfStamp(now) ==
    Padded(now.year, 4) \o Padded(now.month, 2) \o Padded(now.day, 2) \o "-"
    \o Padded(now.hour, 2) \o Padded(now.minute, 2) \o Padded(now.second, 2)

\* One entry of invoice_lines
invoice_line(item, item_id) ==
    The({[DetailType |-> "SalesItemLineDetail",
          Amount |-> PyStr(item.Amount),
          Description |-> item.Description,
          SalesItemLineDetail |->
            [ItemRef |-> [value |-> item_id, name |-> mapped_item_name],
             Qty |-> IF Contains(mapped_item_name, "Management Fee") THEN "1"
                     ELSE IF item.Quantity # JNull THEN PyStr(item.Quantity) ELSE "1",
             UnitPrice |-> IF Contains(mapped_item_name, "Management Fee") THEN PyStr(item.Amount)
                           ELSE IF item.Rate # JNull THEN PyStr(item.Rate)
                           ELSE PyStr(item.Amount),
             ServiceDate |-> Or(Get(item, "ServiceDate", JNull), Get(item, "InvoiceDate", JNull))]] :
            mapped_item_name \in {_map_item_name(item.Item)}})

\* invoice_data with the customer's id appended to the document number
invoice_data_numbered_by_customer(customer, customer_id, items, lines, now) ==
    [Line |-> lines,
     CustomerRef |-> [value |-> customer_id, name |-> customer],
     TxnDate |-> StrfDate(now),
     DueDate |-> items[1].DueDate,
     PrivateNote |-> "Created via BuildingBlocks on " \o StrfDate(now)
                     \o " for service period " \o items[1].InvoiceDate[1],
     DocNumber |-> "BB-" \o StrfStamp(now) \o "-" \o customer_id,
     GlobalTaxCalculation |-> "NotApplicable",
     CurrencyRef |-> [value |-> "USD", name |-> "United States Dollar"]]

\* invoice_data
invoice_data(customer, customer_id, items, lines, now) ==
    [Line |-> lines,
     CustomerRef |-> [value |-> customer_id, name |-> customer],
     TxnDate |-> StrfDate(now),
     DueDate |-> items[1].DueDate,
     PrivateNote |-> "Created via BuildingBlocks on " \o StrfDate(now)
                     \o " for service period " \o items[1].InvoiceDate[1],
     DocNumber |-> "BB-" \o StrfStamp(now),
     GlobalTaxCalculation |-> "NotApplicable",
     CurrencyRef |-> [value |-> "USD", name |-> "United States Dollar"]]

\* What the backend does for a customer: "ok"; "refresh", where the customer
\* query and the submission are answered after a token refresh; "absent", where
\* the customer is unknown; "post_error", where the submission is refused; and
\* "bad_body", where the submission is answered without an Invoice.
Fates == {"ok", "refresh", "absent", "post_error", "bad_body"}

\* Fates in which the customer query itself fails: "unauthorized", where the
\* query is answered 401 before and after the refresh; "expired", where the
\* refresh is refused; "unreachable", where the request gets no response; and
\* "refused", where it is answered with an error status.
QueryFailures == {"unauthorized", "expired", "unreachable", "refused"}

CustomerScript(backend, customer) ==
    CASE backend.fate[customer] = "unauthorized" -> Script(Unauthorized, GrantOk, Unauthorized)
      [] backend.fate[customer] = "expired" ->
            Script(Unauthorized, GrantFailed("invalid_grant"), NoResponse)
      [] backend.fate[customer] = "unreachable" -> Script(NoResponse, GrantOk, NoResponse)
      [] backend.fate[customer] = "refused" -> AnswerScript("error", <<>>)
      [] OTHER ->
            AnswerScript(IF backend.fate[customer] = "refresh" THEN "refresh" ELSE "ok",
                         QueryResponse("Customer",
                            IF backend.fate[customer] = "absent" THEN <<>>
                            ELSE <<[Id |-> "cust-" \o customer]>>))

PostScript(backend, customer, doc) ==
    CASE backend.fate[customer] = "post_error" -> AnswerScript("error", <<>>)
      [] backend.fate[customer] = "bad_body" ->
            AnswerScript("ok", FaultBody("ValidationFault", "Invalid document"))
      [] OTHER ->
            AnswerScript(backend.fate[customer],
                         [Invoice |-> [Id |-> "inv-" \o customer, DocNumber |-> doc.DocNumber]])

\* The state of one create_invoice call between two steps.
Progress(raised, exc, results, lines, token, sent, grants) ==
    [raised |-> raised, exc |-> exc, results |-> results, lines |-> lines,
     token |-> token, sent |-> sent, grants |-> grants]

\* The call after a step r was taken from acc, raising exc
Failed(acc, r, exc) ==
    Progress(TRUE, <<exc>>, acc.results, <<>>, r.token, acc.sent \o r.sent, acc.grants + r.grants)

\* The line loop after get_item_id returned or raised r for item
AfterItem(acc, item, r) ==
    IF r.raised THEN Failed(acc, r, r.exc[1])
    ELSE IF ~Truthy(r.value[1])
    THEN Failed(acc, r, PlainException("Item '" \o _map_item_name(item.Item) \o "' (originally '"
                                       \o item.Item \o "') not found in QuickBooks"))
    ELSE Progress(FALSE, <<>>, acc.results, Append(acc.lines, invoice_line(item, r.value[1][1])),
                  r.token, acc.sent \o r.sent, acc.grants + r.grants)

RECURSIVE LineLoop(_, _, _, _)
\* for item in customer_items: a raise leaves the loop
LineLoop(s, backend, items, acc) ==
    IF acc.raised \/ Len(items) = 0 THEN acc
    ELSE The({LineLoop(s, backend, Tail(items), next) :
                next \in {The({AfterItem(acc, Head(items), r) :
                            r \in {get_item_id(s, acc.token, Head(items).Item,
                                               [catalog |-> backend.catalog,
                                                transports |-> <<"ok", "ok">>])}})}})

\* The customer loop's body after the submission r of doc
AfterPost(acc, customer, r) ==
    IF r.raised THEN Failed(acc, r, r.exc[1])
    ELSE IF "Invoice" \in DOMAIN r.value[1]
    THEN Progress(FALSE, <<>>,
                  Append(acc.results,
                         [Id |-> r.value[1].Invoice.Id,
                          DocNumber |-> r.value[1].Invoice.DocNumber,
                          QuickBooksUrl |-> "https://qbo.intuit.com/app/invoice?txnId="
                                            \o r.value[1].Invoice.Id,
                          Customer |-> customer]),
                  <<>>, r.token, acc.sent \o r.sent, acc.grants + r.grants)
    ELSE Failed(acc, r, PlainException("Invalid response from QuickBooks API"))

\* The customer loop's body after the lines were resolved: the submission.
\* now[customer] is the wall clock read while the customer's document is assembled.
AfterLines(s, backend, now, customer, customer_id, items, acc) ==
    IF acc.raised THEN acc
    ELSE The({The({AfterPost([acc EXCEPT !.lines = <<>>], customer, r) :
                    r \in {_make_request(s, acc.token, "POST", "invoice", "", <<doc>>,
                                         PostScript(backend, customer, doc))}}) :
                doc \in {invoice_data(customer, customer_id, items, acc.lines, now[customer])}})

\* The customer loop's body without the check of the customer id
AfterCustomer_without_check(s, backend, now, customer, items, acc, cid) ==
    The({AfterLines(s, backend, now, customer,
                    IF Truthy(cid.value[1]) THEN cid.value[1][1] ELSE "None", items, lines) :
            lines \in {LineLoop(s, backend, items,
                                Progress(FALSE, <<>>, acc.results, <<>>, cid.token,
                                         acc.sent \o cid.sent, acc.grants + cid.grants))}})

\* The customer loop's body after get_customer_id returned cid
AfterCustomer(s, backend, now, customer, items, acc, cid) ==
    IF ~Truthy(cid.value[1])
    THEN Failed(acc, cid, PlainException("Customer '" \o customer \o "' not found in QuickBooks"))
    ELSE The({AfterLines(s, backend, now, customer, cid.value[1][1], items, lines) :
                lines \in {LineLoop(s, backend, items,
                                    Progress(FALSE, <<>>, acc.results, <<>>, cid.token,
                                             acc.sent \o cid.sent, acc.grants + cid.grants))}})

RECURSIVE CustomerLoop(_, _, _, _, _, _)
\* for customer, customer_items in customer_invoices.items(): a raise leaves the
\* loop and the call
CustomerLoop(s, backend, now, sorted, customers, acc) ==
    IF acc.raised \/ Len(customers) = 0 THEN acc
    ELSE The({CustomerLoop(s, backend, now, sorted, Tail(customers), next) :
                next \in {The({AfterCustomer(s, backend, now, Head(customers),
                                             customer_items(sorted, Head(customers)), acc, cid) :
                            cid \in {get_customer_id(s, acc.token, Head(customers),
                                                     CustomerScript(backend, Head(customers)))}})}})

\* create_invoice returning the results collected before the failure
create_invoice_returning_partial(s, token, items, backend, now) ==
    IF Len(items) = 0
    THEN Raised([type |-> "ValueError", msg |-> "No items provided for invoice creation"],
                token, <<>>, 0)
    ELSE The({Returned(IF Len(done.results) = 1 THEN done.results[1] ELSE done.results,
                       done.token, done.sent, done.grants) :
                done \in {The({CustomerLoop(s, backend, now, sorted, Customers(sorted),
                                            Progress(FALSE, <<>>, <<>>, <<>>, token, <<>>, 0)) :
                            sorted \in {invoice_items(items)}})}})

\* QuickBooksClient.create_invoice
create_invoice(s, token, items, backend, now) ==
    IF Len(items) = 0
    THEN Raised([type |-> "ValueError", msg |-> "No items provided for invoice creation"],
                token, <<>>, 0)
    ELSE The({IF done.raised THEN Raised(done.exc[1], done.token, done.sent, done.grants)
              ELSE Returned(IF Len(done.results) = 1 THEN done.results[1] ELSE done.results,
                            done.token, done.sent, done.grants) :
                done \in {The({CustomerLoop(s, backend, now, sorted, Customers(sorted),
                                            Progress(FALSE, <<>>, <<>>, <<>>, token, <<>>, 0)) :
                            sorted \in {invoice_items(items)}})}})

\* The lines callers submit.
InvoiceLine(customer, item, description, service_date, invoice_date, amount) ==
    [Customer |-> customer, InvoiceDate |-> JStr(invoice_date), DueDate |-> "2024-03-31",
     Item |-> item, Description |-> description, Quantity |-> JNull, Rate |-> JNull,
     Amount |-> amount, ServiceDate |-> service_date]

LinePool ==
    {InvoiceLine("Acme", "4100 - Rent Income", "B St - Rent", JStr("2024-02-01"), "2024-03-01",
                 <<120000>>),
     InvoiceLine("Acme", "4100 - Rent Income", "A St - Rent", JStr("2024-01-01"), "2024-03-01",
                 <<95000>>),
     InvoiceLine("Acme", "4100 - Rent Income", "A St - Rent", JStr("2024-03-01"), "2024-03-01",
                 <<95050>>),
     InvoiceLine("Acme", "4460 - Late Fee", "A St - Late fee", JNull, "2024-01-01", <<2500>>),
     InvoiceLine("Bolt", "Management Fees", "C-1 Elm Management Fees - March", JStr("2024-02-15"),
                 "2024-03-01", <<7500>>),
     InvoiceLine("Bolt", "Widget", "D St - Misc", JStr("2024-01-15"), "2024-03-01", JNull)}

\* The items of the company the invoices go to.
InvoiceCatalog ==
    <<[Id |-> "1", Name |-> "Sales", Type |-> "Category"],
      [Id |-> "2", Name |-> "Sales - Retail", Type |-> "Service"],
      [Id |-> "3", Name |-> "Management Fee", Type |-> "Service"],
      [Id |-> "6", Name |-> "Late Fee", Type |-> "Service"]>>

\* Readings of the wall clock.
Morning == [year |-> 2024, month |-> 3, day |-> 5, hour |-> 1, minute |-> 23, second |-> 4]
Noon == [year |-> 2024, month |-> 3, day |-> 5, hour |-> 12, minute |-> 3, second |-> 4]
Clocks == {Morning, Noon}

\* The customers of a request
CustomersOf(items) == {items[i].Customer : i \in 1..Len(items)}

InitInvoice ==
    /\ clients = {DJANGO}
    /\ access_token = [t \in {DJANGO} |-> 0]
    /\ http_log = <<>>
    /\ refreshes = 0
    /\ call = Idle
    /\ outcome = NoOutcome

CreateInvoiceCall ==
    /\ call = Idle
    /\ \E t \in clients, items \in DistinctSeqs(LinePool, MaxLines) :
        \E fate \in [CustomersOf(items) -> Fates], now \in {[c \in CustomersOf(items) |-> Morning]} :
            /\ call' = [op |-> "create_invoice", tenant |-> t, items |-> items,
                        backend |-> [catalog |-> InvoiceCatalog, fate |-> fate],
                        now |-> now, token |-> access_token[t]]
            /\ \E r \in {create_invoice(Session(t), access_token[t], items,
                                        [catalog |-> InvoiceCatalog, fate |-> fate], now)} :
                    Effect(t, r)

NextInvoice == CreateInvoiceCall

SpecInvoice == InitInvoice /\ [][NextInvoice]_vars

-----------------------------------------------------------------------------
\* Customer lookup and submission under a failing customer query and a running
\* clock.

\* What the backend does for a customer of a submission.
SubmitFates == {"ok", "absent", "post_error"} \cup QueryFailures

\* The lines of the submissions: two customers, every item resolvable.
SubmitPool == {line \in LinePool : line.Item # "Widget" /\ line.Amount # <<95050>>
                                    /\ line.Amount # <<120000>>}

CustomerNames == {"Acme", "Bolt"}

\* A response of the backend to a customer query: where a script answers with
\* document A, the backend answers with the rows it has for the customer.
CustomerAnswer(resp, customer, known) ==
    IF resp = JsonResponse(200, [doc |-> "A"])
    THEN JsonResponse(200, QueryResponse("Customer",
                                         IF known THEN <<[Id |-> "cust-" \o customer]>> ELSE <<>>))
    ELSE resp

GetCustomerIdCall ==
    /\ call = Idle
    /\ \E t \in clients, customer \in CustomerNames, script \in Scripts,
          known \in BOOLEAN :
        \E answers \in {Script(CustomerAnswer(script.first, customer, known), script.grant,
                                CustomerAnswer(script.second, customer, known))} :
            /\ call' = [op |-> "get_customer_id", tenant |-> t, customer |-> customer,
                        script |-> answers, token |-> access_token[t]]
            /\ \E r \in {get_customer_id(Session(t), access_token[t], customer, answers)} :
                    Effect(t, r)

SubmitInvoicesCall ==
    /\ call = Idle
    /\ \E t \in clients, items \in DistinctSeqs(SubmitPool, MaxLines) :
        \E fate \in [CustomersOf(items) -> SubmitFates], now \in [CustomersOf(items) -> Clocks] :
            /\ call' = [op |-> "create_invoice", tenant |-> t, items |-> items,
                        backend |-> [catalog |-> InvoiceCatalog, fate |-> fate],
                        now |-> now, token |-> access_token[t]]
            /\ \E r \in {create_invoice(Session(t), access_token[t], items,
                                        [catalog |-> InvoiceCatalog, fate |-> fate], now)} :
                    Effect(t, r)

NextSubmit == GetCustomerIdCall \/ SubmitInvoicesCall

SpecSubmit == InitInvoice /\ [][NextSubmit]_vars

-----------------------------------------------------------------------------
\* Callers that run _make_request or _query_direct on one session at the same
\* time.  The session holds no lock: each statement that sends a request, asks
\* for a grant or stores the token is a step of its caller, and the steps of the
\* callers interleave.  call.callers holds each caller's position and locals.

Callers == 1..MaxCallers

\* The statuses the backend answers a request with.
Statuses == {200, 401, 500}

\* A caller that has not called yet.
NotCalled ==
    [pc |-> "start", op |-> "none", stale |-> 0, status |-> 0, granted |-> 0,
     bearer |-> 0, result |-> "none"]

InitRace ==
    /\ clients = {DJANGO}
    /\ access_token = [t \in {DJANGO} |-> 0]
    /\ http_log = <<>>
    /\ refreshes = 0
    /\ call = [op |-> "concurrent", tenant |-> DJANGO, callers |-> [c \in Callers |-> NotCalled]]
    /\ outcome = NoOutcome

\* The URL a caller's request goes to.
CallerUrl(op) ==
    IF op = "_make_request"
    THEN BASE_URL \o "/" \o Session(call.tenant).realm_id \o "/reports/AgedReceivables"
    ELSE BASE_URL \o "/" \o Session(call.tenant).realm_id \o "/query?query="
         \o Quote("SELECT Id FROM Customer") \o "&minorversion=75"

\* The caller's position and locals become next.
Move(c, next) == call' = [call EXCEPT !.callers[c] = next]

\* How a call ends on a response that is not answered by a refresh.
Ending(status) ==
    CASE status = 401 -> "QuickBooksAuthError: Authentication failed even after token refresh"
      [] status = 200 -> "returned"
      [] OTHER -> "request failed"

\* The headers are built from the stored token and the first request is sent.
SendFirst(c) ==
    /\ call.callers[c].pc = "start"
    /\ \E op \in {"_make_request", "_query_direct"}, status \in Statuses :
        /\ http_log' = Append(http_log, Request("GET", CallerUrl(op), access_token[call.tenant],
                                                "", <<>>))
        /\ Move(c, [call.callers[c] EXCEPT !.pc = "answered", !.op = op, !.status = status,
                                            !.stale = access_token[call.tenant],
                                            !.bearer = access_token[call.tenant]])
    /\ UNCHANGED <<clients, access_token, refreshes, outcome>>

\* A first response other than 401: raise_for_status() and return.
CompleteFirst(c) ==
    /\ call.callers[c].pc = "answered"
    /\ call.callers[c].status # 401
    /\ Move(c, [call.callers[c] EXCEPT !.pc = "done", !.result = Ending(call.callers[c].status)])
    /\ UNCHANGED <<clients, access_token, http_log, refreshes, outcome>>

\* After 401: refresh_access_token sends the refresh-token grant; the token
\* endpoint issues a new token or refuses.
RequestGrant(c) ==
    /\ call.callers[c].pc = "answered"
    /\ call.callers[c].status = 401
    /\ refreshes' = refreshes + 1
    /\ \E grant \in {GrantOk, GrantFailed("invalid_grant")} :
        \E rf \in {refresh_access_token(Session(call.tenant), refreshes, grant)} :
            IF rf.raised
            THEN Move(c, [call.callers[c] EXCEPT !.pc = "done", !.result = rf.exc[1].type])
            ELSE Move(c, [call.callers[c] EXCEPT !.pc = "granted", !.granted = rf.token])
    /\ UNCHANGED <<clients, access_token, http_log, outcome>>

\* The granted token is stored in the session.
StoreToken(c) ==
    /\ call.callers[c].pc = "granted"
    /\ access_token' = [access_token EXCEPT ![call.tenant] = call.callers[c].granted]
    /\ Move(c, [call.callers[c] EXCEPT !.pc = "refreshed"])
    /\ UNCHANGED <<clients, http_log, refreshes, outcome>>

\* The header is rebuilt from the stored token, the request is sent again and
\* the call ends on its response.
SendRetry(c) ==
    /\ call.callers[c].pc = "refreshed"
    /\ http_log' = Append(http_log, Request("GET", CallerUrl(call.callers[c].op),
                                            access_token[call.tenant], "", <<>>))
    /\ \E status \in Statuses :
        Move(c, [call.callers[c] EXCEPT !.pc = "done", !.status = status,
                                        !.bearer = access_token[call.tenant],
                                        !.result = Ending(status)])
    /\ UNCHANGED <<clients, access_token, refreshes, outcome>>

NextRace ==
    \E c \in Callers :
        \/ SendFirst(c)
        \/ CompleteFirst(c)
        \/ RequestGrant(c)
        \/ StoreToken(c)
        \/ SendRetry(c)

SpecRace == InitRace /\ [][NextRace]_vars

-----------------------------------------------------------------------------
\* Claims about the request executor (SpecReq).

RequestOps == {"_make_request", "_query_direct"}

\* A success response: a 2xx status with a JSON body.
Success(resp) == resp.status \in 200..299 /\ resp.is_json

\* The last call saw 401 first and its refresh was granted.
RefreshedAfter401 ==
    /\ call.op \in RequestOps
    /\ call.script.first.status = 401
    /\ call.script.grant.ok

\* C1: a call of _make_request or _query_direct whose first response is 401,
\* whose refresh succeeds and whose retried request succeeds returns the retried
\* response's JSON body and raises nothing.
C1_RetryReturnsRetriedBody ==
    (RefreshedAfter401 /\ Success(call.script.second))
        => (~outcome.raised /\ outcome.value = call.script.second.json)

C1_Witness ==
    /\ RefreshedAfter401
    /\ call.op = "_make_request"
    /\ Success(call.script.second)
    /\ Len(http_log) = 2
    /\ ~outcome.raised

\* C2: when the retried request is answered 401 as well, the call raises
\* QuickBooksAuthError ("failed even after token refresh"), and the caller sees
\* that type, not the generic exception of a failed request.
C2_SecondUnauthorizedIsAuthError ==
    (RefreshedAfter401 /\ call.script.second.status = 401)
        => /\ outcome.raised
           /\ outcome.exc[1].type = "QuickBooksAuthError"
           /\ outcome.exc[1].msg = "Authentication failed even after token refresh"

C2_Witness ==
    /\ RefreshedAfter401
    /\ call.op = "_make_request"
    /\ call.script.second.status = 401
    /\ Len(http_log) = 2
    /\ outcome.raised

\* C11: the error raised when the retried request is also 401 is annotated with
\* the tenant id: its message names the session's company_prefix.
C11_AuthFailedAfterRetryNamesTenant ==
    (RefreshedAfter401 /\ call.script.second.status = 401 /\ outcome.raised)
        => Contains(outcome.exc[1].msg, call.tenant)

\* The last call saw 401 first and its refresh was refused.
RefreshRefused ==
    /\ call.op \in RequestOps
    /\ call.script.first.status = 401
    /\ ~call.script.grant.ok

\* C17: a refused grant whose error text contains 'invalid_grant' in any case
\* raises an auth error carrying the tenant id, the re-authorization location
\* and the steps; any other refused grant raises the generic 'Failed to
\* authenticate' auth error for the tenant; the failure always reaches the caller.
C17_RefreshFailuresDistinguished ==
    RefreshRefused =>
        /\ outcome.raised
        /\ outcome.exc[1].type = "QuickBooksAuthError"
        /\ IF call.script.grant.error \in {"400 Invalid_Grant", "invalid_grant: token expired"}
           THEN /\ Contains(outcome.exc[1].msg, "refresh token has expired for " \o call.tenant)
                /\ Contains(outcome.exc[1].msg,
                            "Go to https://developer.intuit.com/app/developer/playground")
                /\ Contains(outcome.exc[1].msg, "Please follow these steps")
                /\ Contains(outcome.exc[1].msg, "Update the " \o call.tenant \o "_QB_REFRESH_TOKEN")
           ELSE outcome.exc[1].msg = "Failed to authenticate with QuickBooks for " \o call.tenant
                                     \o ": " \o call.script.grant.error

C17_Witness ==
    /\ RefreshRefused
    /\ call.script.grant.error = "400 Invalid_Grant"
    /\ outcome.raised
    /\ Len(http_log) = 1

\* The last call's first response was an error status other than 401.
FirstResponseIsError ==
    /\ call.op \in RequestOps
    /\ call.script.first.status >= 400
    /\ call.script.first.status # 401

\* C18: a call whose first response has an error status other than 401 fails
\* with an error that is not QuickBooksAuthError after exactly one HTTP request
\* and without a refresh.
C18_OtherErrorsFailWithoutRetry ==
    FirstResponseIsError =>
        /\ outcome.raised
        /\ outcome.exc[1].type # "QuickBooksAuthError"
        /\ Len(http_log) = 1
        /\ refreshes = 0

C18_Witness ==
    /\ FirstResponseIsError
    /\ call.op = "_make_request"
    /\ call.script.first.status = 500
    /\ outcome.raised

\* C21: one call of _make_request or _query_direct sends at most two HTTP
\* requests and attempts at most one refresh; it sends a second request only
\* after a 401 first response followed by a granted refresh, and the second
\* request carries the refreshed token.
C21_AtMostOneRetry ==
    call.op \in RequestOps =>
        /\ Len(http_log) \in 1..2
        /\ refreshes \in 0..1
        /\ refreshes = 1 <=> call.script.first.status = 401
        /\ Len(http_log) = 2 <=> (call.script.first.status = 401 /\ call.script.grant.ok)
        /\ Len(http_log) = 2 =>
                /\ http_log[2].bearer = call.token + 1
                /\ http_log[2].url = http_log[1].url
                /\ http_log[2].method = http_log[1].method

C21_Witness ==
    /\ call.op = "_query_direct"
    /\ call.script.first.status = 401
    /\ call.script.grant.ok
    /\ call.script.second.status = 401
    /\ Len(http_log) = 2
    /\ refreshes = 1

\* The call a step makes saw a first response other than 401.
StepWithoutUnauthorized ==
    /\ call'.op \in RequestOps
    /\ call'.script.first.status # 401

\* C22: over any sequence of calls on the sessions, a step changes a session's
\* access token only if it is a call on that session whose first response was
\* 401; a call whose first response is anything else attempts no refresh,
\* leaves every token as it was and sends the session's stored token, so two such
\* calls in a row on one session send the same token.
C22_TokenChangesOnlyAfterUnauthorized ==
    [][ /\ \A t \in clients :
            access_token'[t] # access_token[t] =>
                /\ call'.op \in RequestOps
                /\ call'.tenant = t
                /\ call'.script.first.status = 401
        /\ StepWithoutUnauthorized =>
                /\ refreshes' = 0
                /\ access_token' = access_token
                /\ Len(http_log') = 1
                /\ http_log'[1].bearer = access_token[call'.tenant]
        /\ (/\ StepWithoutUnauthorized
            /\ call.op \in RequestOps
            /\ call.tenant = call'.tenant
            /\ call.script.first.status # 401) =>
                http_log'[1].bearer = http_log[1].bearer
      ]_vars

\* A call without 401 that reused the token an earlier call had refreshed.
C22_Witness ==
    /\ call.op = "_query_direct"
    /\ call.script.first.status = 200
    /\ access_token[call.tenant] = 1
    /\ Len(http_log) = 1
    /\ http_log[1].bearer = 1
    /\ refreshes = 0

\* C26: a call that receives 401 and whose refresh is refused sends no retry: it
\* ends after exactly one request with the error refresh_access_token raised
\* (the expired-refresh-token error for an invalid_grant), never with the
\* 'failed even after token refresh' error, and leaves the token as it was.
C26_RefusedRefreshSendsNoRetry ==
    RefreshRefused =>
        /\ Len(http_log) = 1
        /\ refreshes = 1
        /\ access_token[call.tenant] = call.token
        /\ outcome.raised
        /\ outcome.exc[1].type = "QuickBooksAuthError"
        /\ outcome.exc[1].msg # "Authentication failed even after token refresh"
        /\ Contains(Lower(call.script.grant.error), "invalid_grant")
                => outcome.exc[1].msg = ExpiredMessage(Session(call.tenant))
        /\ ~Contains(Lower(call.script.grant.error), "invalid_grant")
                => Contains(outcome.exc[1].msg, ": " \o call.script.grant.error)

C26_Witness ==
    /\ RefreshRefused
    /\ call.op = "_query_direct"
    /\ call.script.grant.error = "invalid_grant: token expired"
    /\ Len(http_log) = 1
    /\ outcome.raised
    /\ outcome.exc[1].msg = ExpiredMessage(Session(call.tenant))
    /\ Len(http_log) = 1

\* The session with other secret values: all else is the same.
OtherSecrets(s) ==
    [s EXCEPT !.client_secret = "other-secret", !.refresh_token = "other-refresh-token"]

\* What the last call does on the session with the other secret values.
WithOtherSecrets ==
    IF call.op = "_make_request"
    THEN _make_request(OtherSecrets(Session(call.tenant)), call.token, "GET", call.endpoint,
                       "", <<>>, call.script)
    ELSE _query_direct(OtherSecrets(Session(call.tenant)), call.token, call.query, call.script)

\* C30: no error a call raises contains the session's client secret or refresh
\* token: its text is the same on a session that differs only in those values.
C30_ErrorsCarryNoSecrets ==
    (call.op \in RequestOps /\ outcome.raised) =>
        /\ ~Contains(outcome.exc[1].msg, Session(call.tenant).client_secret)
        /\ ~Contains(outcome.exc[1].msg, Session(call.tenant).refresh_token)
        /\ WithOtherSecrets.raised
        /\ WithOtherSecrets.exc[1].msg = outcome.exc[1].msg

-----------------------------------------------------------------------------
\* Claims about concurrent callers of one session (SpecRace).

\* Two callers are in their calls at once, and both were answered 401 for the
\* same stored token.
SawSameStaleToken(a, b) ==
    /\ a # b
    /\ call.callers[a].pc \in {"answered", "granted", "refreshed"}
    /\ call.callers[b].pc \in {"answered", "granted", "refreshed"}
    /\ call.callers[a].pc # "answered" \/ call.callers[a].status = 401
    /\ call.callers[b].pc # "answered" \/ call.callers[b].status = 401
    /\ call.callers[a].stale = call.callers[b].stale

\* C24: refreshes of one session are single-flight: when two concurrent callers
\* were both answered 401 for the same stale token, at most one refresh-token
\* grant is performed.
C24_RefreshesAreSingleFlight ==
    call.op = "concurrent" =>
        \A a, b \in Callers : SawSameStaleToken(a, b) => refreshes <= 1

-----------------------------------------------------------------------------
\* Claims about the report formatter (SpecFmt).

\* The formatter has run on a payload with a 'Rows' entry.
FormattedRows == call.op = "format_ar_report" /\ "Rows" \in DOMAIN call.report

\* The top-level rows of the payload, those the claim calls data rows (with
\* ColData, not of type Section) and the grand-total sections.
TopRows == Get(call.report.Rows, "Row", <<>>)
HasColData(row) == "ColData" \in DOMAIN row /\ Len(row.ColData) > 0
OfType(row, type) == "type" \in DOMAIN row /\ row.type = JStr(type)
ClaimDataRows == SelectSeq(TopRows, LAMBDA row : HasColData(row) /\ ~OfType(row, "Section"))
ClaimHasGrandTotal ==
    \E i \in 1..Len(TopRows) :
        /\ OfType(TopRows[i], "Section")
        /\ "group" \in DOMAIN TopRows[i] /\ TopRows[i].group = JStr("GrandTotal")

\* The text of a cell, '' when the cell has no value.
CellText(col) == IF "value" \in DOMAIN col THEN col.value[1] ELSE ""

\* "$", an optional sign, digits in comma-separated groups of three, a point
\* and two decimals.
IsCurrencyString(t) ==
    /\ Len(t) >= 5
    /\ CharAt(t, 1) = "$"
    /\ LET body == IF CharAt(t, 2) = "-" THEN Tail_(t, 3) ELSE Tail_(t, 2)
           ip == SubSeq(body, 1, Len(body) - 3)
       IN  /\ Len(ip) >= 1
           /\ CharAt(body, Len(body) - 2) = "."
           /\ AllDigits(Tail_(body, Len(body) - 1))
           /\ \A i \in 1..Len(ip) :
                IF (Len(ip) - i) % 4 = 3 THEN CharAt(ip, i) = ","
                ELSE Find(Digits, CharAt(ip, i)) > 0

\* The text is a number once '$' and ',' are removed.
IsNumberText(t) == ParseFloat(Remove(Remove(t, "$"), ",")).ok

\* The shape both statements of C9 share: header first, one row per data row
\* with its first cell unchanged, and a last row TOTAL when a grand total exists.
\* CellOk(text, out) says how a later cell `text` may be rendered as `out`.
ReportShape(CellOk(_, _)) ==
    LET rows == outcome.value[1]
        data == ClaimDataRows
    IN  /\ ~outcome.raised
        /\ Len(rows) = 1 + Len(data) + (IF ClaimHasGrandTotal THEN 1 ELSE 0)
        /\ rows[1] = headers
        /\ \A i \in 1..Len(data) :
            /\ Len(rows[i + 1]) = Len(data[i].ColData)
            /\ rows[i + 1][1] = CellText(data[i].ColData[1])
            /\ \A j \in 2..Len(data[i].ColData) :
                CellOk(CellText(data[i].ColData[j]), rows[i + 1][j])
        /\ ClaimHasGrandTotal => rows[Len(rows)][1] = "TOTAL"

\* Every later cell is a currency string, '$0.00' for an empty value.
AlwaysCurrency(text, out) ==
    /\ IsCurrencyString(out)
    /\ text = "" => out = "$0.00"

\* A later cell is a currency string when its text is empty or a number, and
\* is the text itself otherwise.
CurrencyOrUnchanged(text, out) ==
    /\ text = "" => out = "$0.00"
    /\ IsNumberText(text) => IsCurrencyString(out)
    /\ (text # "" /\ ~IsNumberText(text)) => out = text

ExampleReport ==
    [Rows |-> [Row |-> <<DataRow(<<"Acme", "", "$10.00">>),
                         GrandTotalRow(<<"TOTAL", "0", "1,234.5">>)>>]]

-----------------------------------------------------------------------------
\* Claims about the tenant pool (SpecPool).

PoolCalled == call.op = "MultiTenantQB.get_ar_aging"

\* The companies of the last pool call that have a session.
Served == Range(Iterated(call.companies)) \cap clients

\* The tenant's report request fails authentication: 401, and then either the
\* refresh grant fails or the retried request is answered 401 again.
AuthFails(script) ==
    /\ script.first.status = 401
    /\ (~script.grant.ok \/ script.second.status = 401)

\* The response the tenant's report request ends with, when it succeeds.
FinalResponse(script) ==
    IF script.first.status = 401 THEN script.second ELSE script.first
RequestSucceeds(script) ==
    /\ script.first.status = 401 => script.grant.ok
    /\ Success(FinalResponse(script))

\* C3: a tenant with a session whose report request fails authentication is a
\* key of auth_errors, with the error text, and no key of reports.
C3_AuthFailureRecorded ==
    PoolCalled =>
        \A k \in Served :
            AuthFails(call.scripts[k]) =>
                /\ k \in DOMAIN outcome.value[1].auth_errors
                /\ k \notin DOMAIN outcome.value[1].reports

\* C4: every requested tenant with a session whose own report request succeeds
\* and formats has its formatted report in reports, whatever happened to the
\* tenants before and after it in the iteration.
C4_SuccessfulTenantsReported ==
    PoolCalled =>
        \A t \in Served :
            LET body == FinalResponse(call.scripts[t]).json[1]
            IN  (RequestSucceeds(call.scripts[t]) /\ ~format_ar_report(body).raised) =>
                    /\ t \in DOMAIN outcome.value[1].reports
                    /\ outcome.value[1].reports[t] = format_ar_report(body).rows

\* A call over three companies: the first has no session, the second's report
\* cannot be formatted, the third succeeds after a refresh and is reported.
C4_Witness ==
    /\ PoolCalled
    /\ call.companies = <<CMR, DJANGO, STANDARD_MGMT>>
    /\ call.scripts[DJANGO].first.json = <<ReportNull>>
    /\ call.scripts[STANDARD_MGMT].first.status = 401
    /\ RequestSucceeds(call.scripts[STANDARD_MGMT])
    /\ DOMAIN outcome.value[1].reports = {STANDARD_MGMT}
    /\ Len(outcome.value[1].reports[STANDARD_MGMT]) = 2

\* C19: a tenant whose report request fails for a reason other than
\* authentication (a non-401 error status, no response) is skipped: it is a key
\* of neither reports nor auth_errors.
C19_OtherFailuresNotRecorded ==
    PoolCalled =>
        \A k \in Served :
            (call.scripts[k].first.status = 0
                \/ (call.scripts[k].first.status >= 400 /\ call.scripts[k].first.status # 401)) =>
                    /\ k \notin DOMAIN outcome.value[1].reports
                    /\ k \notin DOMAIN outcome.value[1].auth_errors

\* C28: in every result of MultiTenantQB.get_ar_aging the keys of reports and
\* the keys of auth_errors are disjoint, and every key of either is a company
\* this call iterated that has a session in the clients map.
C28_ResultKeysAreServedTenants ==
    PoolCalled =>
        /\ DOMAIN outcome.value[1] = {"reports", "auth_errors"}
        /\ DOMAIN outcome.value[1].reports \cap DOMAIN outcome.value[1].auth_errors = {}
        /\ DOMAIN outcome.value[1].reports \subseteq Served
        /\ DOMAIN outcome.value[1].auth_errors \subseteq Served

\* A call naming a company without a session and leaving a tenant out: only the
\* named tenant is a key.
C28_Witness ==
    /\ PoolCalled
    /\ call.companies = <<CMR, DJANGO>>
    /\ CMR \notin clients
    /\ STANDARD_MGMT \in clients
    /\ DOMAIN outcome.value[1].reports = {DJANGO}
    /\ Len(outcome.value[1].reports[DJANGO]) > 0

-----------------------------------------------------------------------------
\* Claims about construction (SpecBoot).

\* The variables of a company that are not set or empty in env.
Absent(env, company) ==
    {v \in {"QUICKBOOKS_CLIENT_ID", "QUICKBOOKS_CLIENT_SECRET",
            company \o "_QB_REFRESH_TOKEN", company \o "_QB_REALM_ID"} :
        v \notin DOMAIN env \/ env[v] = ""}

PoolConstructed == call.op = "MultiTenantQB"
ConstructedPoolCalled == call.op = "MultiTenantQB.get_ar_aging" /\ "pool" \in DOMAIN call

\* The companies a constructed pool's call asks for.
Requested ==
    IF Len(call.companies) = 0 THEN Range(call.pool.companies) ELSE Range(call.companies)

\* C12: a tenant with an empty client id, client secret, refresh token or realm
\* id is never added to the clients map and does not stop the construction of
\* the other tenants; when it is requested in get_ar_aging, no request is made
\* for it and it is a key of neither reports nor auth_errors.
C12_UnconfiguredTenantLeftOut ==
    /\ PoolConstructed =>
        /\ \A c \in Range(Iterated(call.companies)) : Absent(call.env, c) # {} => c \notin clients
        /\ (\A c \in Range(Iterated(call.companies)) :
                Absent(call.env, c) = {} => call.grants[c].ok) =>
                    /\ ~outcome.raised
                    /\ clients = {c \in Range(Iterated(call.companies)) : Absent(call.env, c) = {}}
    /\ ConstructedPoolCalled =>
        \A c \in Requested :
            Absent(call.pool.env, c) # {} =>
                /\ c \notin DOMAIN outcome.value[1].reports
                /\ c \notin DOMAIN outcome.value[1].auth_errors
                /\ \A i \in 1..Len(http_log) :
                        ~Contains(http_log[i].url, "/realm-" \o c \o "/")

\* A pool of two companies, the first without refresh token: the call for all
\* companies reports the second and asks nothing for the first.
C12_Witness ==
    /\ ConstructedPoolCalled
    /\ call.companies = <<>>
    /\ call.pool.companies = <<CMR, DJANGO>>
    /\ Absent(call.pool.env, CMR) = {"CMR_QB_REFRESH_TOKEN"}
    /\ DOMAIN outcome.value[1].reports = {DJANGO}
    /\ Len(http_log) = 1

\* C13: when the initial grant of one tenant fails during the construction of
\* the pool, the construction still completes and the sessions of the other
\* tenants are created.
C13_InitialGrantFailureIsTenantScoped ==
    (PoolConstructed
        /\ \E c \in Range(Iterated(call.companies)) :
                Absent(call.env, c) = {} /\ ~call.grants[c].ok) =>
            /\ ~outcome.raised
            /\ \A c \in Range(Iterated(call.companies)) :
                    (Absent(call.env, c) = {} /\ call.grants[c].ok) => c \in clients

\* C20: constructing a client when one of its four variables is empty fails
\* with the credential error, the error names each absent variable, and no
\* token request is made.
C20_CredentialErrorNamesVariables ==
    (call.op = "QuickBooksClient" /\ Absent(call.env, call.company_prefix) # {}) =>
        /\ outcome.raised
        /\ outcome.exc[1].type = "ValueError"
        /\ refreshes = 0
        /\ \A v \in Absent(call.env, call.company_prefix) : Contains(outcome.exc[1].msg, v)

-----------------------------------------------------------------------------
\* Claims about transactions (SpecTxn).

FormatCalled == call.op = "_format_transaction"
TransactionsCalled == call.op = "get_transactions"

\* The value a numeric field is to get: the number, the number a text denotes,
\* and 0 when the field is absent or no number.
NumberOrZero(d, key) ==
    IF key \notin DOMAIN d \/ d[key] = <<>> THEN 0
    ELSE IF Len(d[key]) = 2 THEN d[key][2]
    ELSE IF ~ParseFloat(d[key][1]).ok THEN 0
    ELSE IF ParseFloat(d[key][1]).neg THEN 0 - ParseFloat(d[key][1]).cents
    ELSE ParseFloat(d[key][1]).cents

\* The lines of a transaction that become line items.
DetailLines(txn) ==
    IF "Line" \in DOMAIN txn
    THEN SelectSeq(txn.Line, LAMBDA line : "DetailType" \in DOMAIN line)
    ELSE <<>>

\* C15: _format_transaction produces the normalized record with the transaction
\* amount, each line amount and the Bill balance set to the source number, or
\* to 0 when the source field is absent or cannot be parsed as a number.
C15_NumericFieldsDefaultToZero ==
    FormatCalled =>
        /\ ~outcome.raised
        /\ outcome.value[1].amount = NumberOrZero(call.txn, "TotalAmt")
        /\ Len(outcome.value[1].line_items) = Len(DetailLines(call.txn))
        /\ \A i \in 1..Len(DetailLines(call.txn)) :
                outcome.value[1].line_items[i].amount = NumberOrZero(DetailLines(call.txn)[i], "Amount")
        /\ call.txn_type = "Bill" => outcome.value[1].balance = NumberOrZero(call.txn, "Balance")

\* The records of the backend that the queries returned and that normalize.
Normalized ==
    {_format_transaction(call.backend[k].rows[i], k).value[1] :
        <<k, i>> \in {<<k, i>> \in {"Purchase", "Bill", "Expense", "JournalEntry"} \X (1..(MaxTxns + 1)) :
            /\ call.backend[k].transport # "error"
            /\ i <= Len(call.backend[k].rows)
            /\ ~_format_transaction(call.backend[k].rows[i], k).raised}}

\* A record with a line item of the reimbursable account.
Reimbursed(record) ==
    \E i \in 1..Len(record.line_items) :
        record.line_items[i].account_name = <<"6300 Reimbursable Expenses">>

\* C16: a record whose normalization fails is skipped and a kind whose query
\* fails is passed over: all four kinds are queried, and the result holds the
\* reimbursable records among those that normalize, or all that normalize when
\* none is reimbursable.
C16_FailuresDoNotAffectBatch ==
    TransactionsCalled =>
        /\ ~outcome.raised
        /\ \A k \in {"Purchase", "Bill", "Expense", "JournalEntry"} :
                \E i \in 1..Len(http_log) : Contains(http_log[i].url, "FROM%20" \o k \o "%20")
        /\ Range(outcome.value[1]) =
                IF \E g \in Normalized : Reimbursed(g)
                THEN {g \in Normalized : Reimbursed(g)}
                ELSE Normalized

\* The first purchase does not normalize and the Bill query fails; the second
\* purchase and the expense are in the result.
C16_Witness ==
    /\ TransactionsCalled
    /\ call.backend.Purchase.rows = <<TxnUnparsable, TxnTolls>>
    /\ call.backend.Bill.transport = "error"
    /\ call.backend.Expense.rows = <<TxnFuel>>
    /\ Len(outcome.value[1]) = 2
    /\ outcome.value[1][1].id = <<"107">>
    /\ outcome.value[1][2].id = <<"101">>

-----------------------------------------------------------------------------
\* Claims about item resolution (SpecItem).

ItemCalled == call.op = "get_item_id"

\* What a call produced, without the requests it took.
Produced(r) == [raised |-> r.raised, value |-> r.value, exc |-> r.exc]

\* C7: for every key of the mapping table, get_item_id(key) produces what
\* get_item_id(_map_item_name(key)) produces against the same backend, and
\* mapping an already mapped name changes nothing.
C7_MappedNameResolvesAlike ==
    (ItemCalled /\ call.item_name \in DOMAIN item_mapping) =>
        /\ outcome = Produced(get_item_id(Session(call.tenant), call.token,
                                          _map_item_name(call.item_name), call.backend))
        /\ _map_item_name(_map_item_name(call.item_name)) = _map_item_name(call.item_name)

C7_Witness ==
    /\ ItemCalled
    /\ call.item_name = "Management Fees"
    /\ ~outcome.raised
    /\ outcome.value # <<JNull>>

\* The catalog's items named exactly `name`, and its billable items whose name
\* contains `name`.
NamedExactly(catalog, name) == SelectSeq(catalog, LAMBDA it : it.Name = name)
BillableLike(catalog, name) ==
    {catalog[i] : i \in {j \in 1..Len(catalog) :
        catalog[j].Type \in {"Service", "Inventory", "NonInventory"}
        /\ Contains(catalog[j].Name, name)}}

\* The call's queries all succeeded and the exact match for the mapped name is
\* not a billable item.
ResolvedToCategory ==
    /\ ItemCalled
    /\ \A i \in 1..2 : call.backend.transports[i] # "error"
    /\ Len(NamedExactly(call.backend.catalog, _map_item_name(call.item_name))) > 0
    /\ NamedExactly(call.backend.catalog, _map_item_name(call.item_name))[1].Type
            \notin {"Service", "Inventory", "NonInventory"}

\* C8: when the exact match is a category, get_item_id returns the id of a
\* billable item whose name contains the mapped name (never the category's id),
\* and when there is none it raises an error naming the item as a category.
C8_CategoryFallsBackToBillable ==
    ResolvedToCategory =>
        LET mapped_name == _map_item_name(call.item_name)
            category == NamedExactly(call.backend.catalog, mapped_name)[1]
            like == BillableLike(call.backend.catalog, mapped_name)
        IN  IF like # {}
            THEN /\ ~outcome.raised
                 /\ outcome.value \in {<<JStr(it.Id)>> : it \in like}
                 /\ outcome.value # <<JStr(category.Id)>>
            ELSE /\ outcome.raised
                 /\ outcome.exc[1].type = "Exception"
                 /\ Contains(outcome.exc[1].msg, "Item '" \o mapped_name \o "' is set up as a category")

C8_Witness ==
    /\ ResolvedToCategory
    /\ call.item_name = "Supplies"
    /\ outcome.value = <<JStr("4")>>

\* The backends that hold the items of the call's backend, in any order.
Reordered ==
    {[catalog |-> other, transports |-> call.backend.transports] :
        other \in {q \in Catalogs : Range(q) = Range(call.backend.catalog)}}

\* C14: when the exact match is a category and several billable items contain
\* the mapped name, a run against a backend holding the same items in another
\* order selects the same item id.
C14_SelectionIndependentOfOrder ==
    ResolvedToCategory =>
        \A other \in Reordered :
            Produced(get_item_id(Session(call.tenant), call.token, call.item_name, other)).value
                = outcome.value

-----------------------------------------------------------------------------
\* Claims about invoice creation (SpecInvoice).

InvoiceCalled == call.op = "create_invoice"

\* The documents submitted, in the order of their requests.
Posts == SelectSeq(http_log, LAMBDA r : r.method = "POST")
PostsFor(customer) == SelectSeq(Posts, LAMBDA r : r.json[1].CustomerRef.name = customer)

\* The customers of the input and the input lines of one customer.
InputCustomers == {call.items[i].Customer : i \in 1..Len(call.items)}
InputLines(customer) == SelectSeq(call.items, LAMBDA it : it.Customer = customer)

\* What identifies a line: its description, its date and its amount.
InputFacts(it) ==
    <<it.Description, IF it.ServiceDate # <<>> THEN it.ServiceDate ELSE it.InvoiceDate,
      PyStr(it.Amount)>>
DocFacts(line) == <<line.Description, line.SalesItemLineDetail.ServiceDate, line.Amount>>

\* How often x occurs in the sequence q.
Count(q, x) == Cardinality({i \in 1..Len(q) : q[i] = x})

\* The same elements, each as often.
SameBag(p, q) ==
    /\ Len(p) = Len(q)
    /\ \A i \in 1..Len(p) : Count(p, p[i]) = Count(q, p[i])

\* C5: when every customer and item resolves and every submission succeeds,
\* create_invoice submits exactly one invoice document per distinct customer of
\* the input, and the lines of each document are exactly the input lines of that
\* customer.  A submission that is answered 401 is sent once more, unchanged,
\* with the refreshed token.
C5_OneDocumentPerCustomer ==
    (InvoiceCalled /\ ~outcome.raised) =>
        /\ \A i \in 1..Len(Posts) : Posts[i].json[1].CustomerRef.name \in InputCustomers
        /\ \A c \in InputCustomers :
            /\ Len(PostsFor(c)) = IF call.backend.fate[c] = "refresh" THEN 2 ELSE 1
            /\ \A i \in 1..Len(PostsFor(c)) : PostsFor(c)[i].json = PostsFor(c)[1].json
            /\ SameBag([i \in 1..Len(PostsFor(c)[1].json[1].Line) |->
                            DocFacts(PostsFor(c)[1].json[1].Line[i])],
                       [i \in 1..Len(InputLines(c)) |-> InputFacts(InputLines(c)[i])])

C5_Witness ==
    /\ InvoiceCalled
    /\ ~outcome.raised
    /\ InputCustomers = {"Acme", "Bolt"}
    /\ Len(call.items) = 3
    /\ Len(Posts) = 2

\* The address token of a description: the text before 'Management Fees', or
\* before the first hyphen when the phrase is absent, without surrounding spaces.
AddressToken(description) ==
    IF Find(description, "Management Fees") > 0
    THEN Strip(SubSeq(description, 1, Find(description, "Management Fees") - 1))
    ELSE IF Find(description, "-") > 0
    THEN Strip(SubSeq(description, 1, Find(description, "-") - 1))
    ELSE Strip(description)

\* The ordering key of a document line, and the order of two keys.
DocKey(line) == <<AddressToken(line.Description), line.SalesItemLineDetail.ServiceDate[1]>>
KeyBefore(a, b) == StrLess(a[1], b[1]) \/ (a[1] = b[1] /\ StrLess(a[2], b[2]))

\* The position in the input of the line a document line was made from.
InputIndex(line) == CHOOSE k \in 1..Len(call.items) : InputFacts(call.items[k]) = DocFacts(line)

\* The lines of a document are in nondecreasing key order, equal keys in input
\* order.
Ordered(lines) ==
    \A i, j \in 1..Len(lines) :
        i < j => /\ ~KeyBefore(DocKey(lines[j]), DocKey(lines[i]))
                 /\ DocKey(lines[i]) = DocKey(lines[j]) => InputIndex(lines[i]) < InputIndex(lines[j])

\* The input [(B St, 2024-02-01), (A St, 2024-01-01), (A St, 2024-03-01)]
ExampleInput ==
    /\ Len(call.items) = 3
    /\ InputFacts(call.items[1]) = <<"B St - Rent", <<"2024-02-01">>, "1200.0">>
    /\ InputFacts(call.items[2]) = <<"A St - Rent", <<"2024-01-01">>, "950.0">>
    /\ InputFacts(call.items[3]) = <<"A St - Rent", <<"2024-03-01">>, "950.5">>

\* C6: in every document create_invoice submits, the lines are in nondecreasing
\* order of (address token, ServiceDate or else InvoiceDate), lines with equal
\* keys keep their input order, and the input (B St, 2024-02-01), (A St,
\* 2024-01-01), (A St, 2024-03-01) is submitted as (A St, 2024-01-01), (A St,
\* 2024-03-01), (B St, 2024-02-01).
C6_LinesOrderedByAddressThenDate ==
    InvoiceCalled =>
        /\ \A i \in 1..Len(Posts) : Ordered(Posts[i].json[1].Line)
        /\ (ExampleInput /\ Len(Posts) > 0) =>
                [i \in 1..3 |-> DocFacts(Posts[1].json[1].Line[i])]
                    = <<InputFacts(call.items[2]), InputFacts(call.items[3]),
                        InputFacts(call.items[1])>>

C6_Witness ==
    /\ InvoiceCalled
    /\ ExampleInput
    /\ Len(Posts) = 1
    /\ ~outcome.raised

\* The customers whose own requests the backend serves and whose items exist.
Servable(customer) ==
    /\ call.backend.fate[customer] \in {"ok", "refresh"}
    /\ \A i \in 1..Len(InputLines(customer)) : InputLines(customer)[i].Item # "Widget"

\* C10: a failure for one customer does not stop the invocation: every customer
\* group after the failing one is still resolved and submitted.
C10_LaterCustomersStillSubmitted ==
    InvoiceCalled =>
        \A c \in InputCustomers : Servable(c) => Len(PostsFor(c)) > 0

\* The URL of the request _query_direct sends for a query of the last call's tenant.
QueryUrl(query) ==
    BASE_URL \o "/" \o Session(call.tenant).realm_id \o "/query?query=" \o Quote(query)
    \o "&minorversion=75"

\* The positions in the log of the requests that look a customer up.
CustomerLookups(customer) ==
    LET url == QueryUrl(CustomerQuery(customer))
    IN  {j \in 1..Len(http_log) : http_log[j].url = url}

\* The positions in the log of the requests that look an item up by its mapped name.
ItemLookups(item) ==
    LET url == QueryUrl(ExactItemQuery(_map_item_name(item)))
    IN  {j \in 1..Len(http_log) : http_log[j].url = url}

\* The backend's catalog has an item of the mapped name that is billable, or
\* that is a category with a billable item of a similar name.
ItemResolves(item) ==
    LET named == NamedExactly(call.backend.catalog, _map_item_name(item))
    IN  /\ Len(named) > 0
        /\ \/ named[1].Type \in Billable
           \/ BillableLike(call.backend.catalog, _map_item_name(item)) # {}

\* C23: create_invoice submits a customer's document only after the customer's
\* id and the item id of every one of the customer's lines were resolved; for a
\* customer that is not found the lookup of the customer is the call's last
\* request (no item lookup, no submission), and for a customer one of whose
\* items does not resolve no document is submitted.
C23_NoPartialSubmission ==
    InvoiceCalled =>
        /\ \A i \in 1..Len(http_log) :
                http_log[i].method = "POST" =>
                    LET doc == http_log[i].json[1]
                        c == doc.CustomerRef.name
                    IN  /\ c \in InputCustomers
                        /\ call.backend.fate[c] # "absent"
                        /\ doc.CustomerRef.value = "cust-" \o c
                        /\ \E j \in CustomerLookups(c) : j < i
                        /\ Len(doc.Line) = Len(InputLines(c))
                        /\ \A k \in 1..Len(InputLines(c)) :
                                /\ ItemResolves(InputLines(c)[k].Item)
                                /\ \E j \in ItemLookups(InputLines(c)[k].Item) : j < i
                        /\ \A k \in 1..Len(doc.Line) :
                                doc.Line[k].SalesItemLineDetail.ItemRef.value
                                    \in {call.backend.catalog[n].Id : n \in 1..Len(call.backend.catalog)}
        /\ \A c \in InputCustomers :
                /\ call.backend.fate[c] = "absent" =>
                        /\ PostsFor(c) = <<>>
                        /\ CustomerLookups(c) \subseteq {Len(http_log)}
                /\ (\E k \in 1..Len(InputLines(c)) : ~ItemResolves(InputLines(c)[k].Item))
                        => PostsFor(c) = <<>>

\* One customer's document was submitted, the next customer is not found.
C23_Witness ==
    /\ InvoiceCalled
    /\ InputCustomers = {"Acme", "Bolt"}
    /\ \E c \in InputCustomers :
            /\ call.backend.fate[c] = "absent"
            /\ CustomerLookups(c) = {Len(http_log)}
    /\ Len(Posts) = 1
    /\ Len(Posts[1].json[1].Line) = 2
    /\ outcome.raised

\* The customers whose document the backend accepted.
Created == {c \in InputCustomers : /\ call.backend.fate[c] \in {"ok", "refresh"}
                                  /\ Len(PostsFor(c)) > 0}

\* A customer group was reached that the backend does not serve.
GroupFailed == \E c \in InputCustomers : CustomerLookups(c) # {} /\ ~Servable(c)

\* C29: when create_invoice fails on a customer group after the documents of
\* earlier groups were accepted, the call raises and returns nothing, and it
\* sent nothing but lookups and submissions of new documents: the accepted
\* documents are neither deleted nor voided, and the error does not name them.
C29_CreatedInvoicesAreLostToCaller ==
    (InvoiceCalled /\ GroupFailed) =>
        /\ outcome.raised
        /\ outcome.value = <<>>
        /\ outcome.exc[1] \in [type : STRING, msg : STRING]
        /\ \A c \in Created : ~Contains(outcome.exc[1].msg, "inv-" \o c)
        /\ \A i \in 1..Len(http_log) :
                \/ http_log[i].method = "GET" /\ Contains(http_log[i].url, "/query?query=SELECT")
                \/ /\ http_log[i].method = "POST"
                   /\ http_log[i].url = BASE_URL \o "/" \o Session(call.tenant).realm_id \o "/invoice"
                   /\ "Id" \notin DOMAIN http_log[i].json[1]
        /\ \A c \in Created : \A i \in 1..Len(PostsFor(c)) : PostsFor(c)[i].json = PostsFor(c)[1].json

C29_Witness ==
    /\ InvoiceCalled
    /\ GroupFailed
    /\ outcome.raised
    /\ outcome.value = <<>>
    /\ Created # {}
    /\ \E c \in InputCustomers : call.backend.fate[c] = "post_error" /\ Len(PostsFor(c)) = 1

-----------------------------------------------------------------------------
\* Claims about customer lookup and document numbers (SpecSubmit).

\* C25: the DocNumber of every submitted document is 'BB-' followed by the date
\* and the time to the second of the clock reading taken for that document, and
\* nothing else: two documents carry the same DocNumber exactly when their
\* readings are the same second.
C25_DocNumberIsTheClockSecond ==
    InvoiceCalled =>
        /\ \A i \in 1..Len(Posts) :
                LET doc == Posts[i].json[1]
                    now == call.now[doc.CustomerRef.name]
                IN  /\ Len(doc.DocNumber) = 18
                    /\ doc.DocNumber =
                          "BB-" \o Padded(now.year, 4) \o Padded(now.month, 2) \o Padded(now.day, 2)
                          \o "-" \o Padded(now.hour, 2) \o Padded(now.minute, 2)
                          \o Padded(now.second, 2)
        /\ \A i, j \in 1..Len(Posts) :
                (Posts[i].json[1].DocNumber = Posts[j].json[1].DocNumber)
                    <=> (call.now[Posts[i].json[1].CustomerRef.name]
                            = call.now[Posts[j].json[1].CustomerRef.name])

\* Two customers' documents assembled within one second carry one DocNumber.
C25_Witness ==
    /\ InvoiceCalled
    /\ Len(Posts) = 2
    /\ Posts[1].json[1].CustomerRef.name # Posts[2].json[1].CustomerRef.name
    /\ call.now["Acme"] = call.now["Bolt"]
    /\ Posts[1].json[1].DocNumber = Posts[2].json[1].DocNumber
    /\ ~outcome.raised

CustomerCalled == call.op = "get_customer_id"

\* The customer query of the last lookup was answered with a row.
CustomerFound ==
    /\ RequestSucceeds(call.script)
    /\ Len(Rows(FinalResponse(call.script).json[1], "Customer")) > 0

\* C27: get_customer_id never raises; it returns the id when the query is
\* answered with a row and None in every other case, whether the customer is
\* unknown, authentication failed or the request failed; and create_invoice
\* fails with the same "Customer '<name>' not found" error for a customer whose
\* query failed as for a customer that is unknown.
C27_LookupFailureLooksLikeMissingCustomer ==
    /\ CustomerCalled =>
            /\ ~outcome.raised
            /\ outcome.value = IF CustomerFound THEN <<JStr("cust-" \o call.customer)>>
                                ELSE <<JNull>>
    /\ InvoiceCalled =>
            \A c \in InputCustomers :
                (call.backend.fate[c] \in QueryFailures \cup {"absent"} /\ CustomerLookups(c) # {})
                    => /\ outcome.raised
                       /\ outcome.exc[1] = PlainException("Customer '" \o c
                                                           \o "' not found in QuickBooks")
                       /\ PostsFor(c) = <<>>

\* A customer query that failed authentication after the refresh and retry.
C27_Witness ==
    /\ InvoiceCalled
    /\ \E c \in InputCustomers :
            /\ call.backend.fate[c] = "unauthorized"
            /\ Cardinality(CustomerLookups(c)) = 2
            /\ outcome.raised
            /\ outcome.exc[1].msg = "Customer '" \o c \o "' not found in QuickBooks"


====
